---------------------------- MODULE Spec2Model ----------------------------
(***************************************************************************)
(* Context Menu Manager: the shortcut registration engine.                 *)
(*                                                                         *)
(* The model covers the validators of core/security.py, the registry       *)
(* helpers of core/compatibility.py, apply_shortcut / remove_shortcut of   *)
(* managers/menu.py and the registry_backups table of models/database.py.  *)
(*                                                                         *)
(* Strings.  A Python str is modelled as a sequence of atoms.  An atom is  *)
(* a run of characters that every string function used by the code treats  *)
(* as a unit (a blank, a quote, a backslash, a NUL, a drive root, a word). *)
(* Each string function of the code is computed on these sequences from    *)
(* the attributes of the atoms (length, blank, separator, lower case).     *)
(***************************************************************************)
EXTENDS Integers, Sequences, FiniteSets, TLC

VARIABLES
    store,      \* the registry below HKEY_CURRENT_USER: key path -> values
    backups,    \* rows of the registry_backups table, oldest first
    pc,         \* per thread: position inside the running call
    call,       \* per thread: arguments and locals of the running call
    last,       \* the call that returned most recently, with its result
    ncalls,     \* number of calls started so far
    probe,      \* a pure function under test: its input and its result
    ledger,     \* the SQLite database of ContextMenuDatabase and the call on it
    async       \* AsyncTaskManager: its workers, its queue and its poller

vars == <<store, backups, pc, call, last, ncalls, probe, ledger, async>>

---------------------------------------------------------------------------
(* Atoms *)

SP    == " "
QUOTE == "\""
BSL   == "\\"
NUL   == "<NUL>"
DRV   == "C:\\"

\* Number of characters of an atom.
AtomLen(a) ==
    CASE a = NUL     -> 1
      [] a = DRV     -> 3
      [] a = BSL     -> 1
      [] a = QUOTE   -> 1
      [] a = "x1988" -> 1988
      [] a = "x99"   -> 99
      [] OTHER       -> Len(a)

\* str.isspace of the atom's characters.
IsSpace(a) == a = SP

\* The atom ends a directory part for ntpath.split: a separator, or a drive
\* root (drive letter, colon, separator).
IsSep(a) == a \in {BSL, "/", DRV}

\* str.lower / str.upper of an atom.
LowerAtom(a) ==
    CASE a = "NOTEPAD.EXE" -> "notepad.exe"
      [] a = "Shutdown"    -> "shutdown"
      [] a = "CON"         -> "con"
      [] a = "Con"         -> "con"
      [] a = "A"           -> "a"
      [] a = "B"           -> "b"
      [] a = "ALL_FILES"   -> "all_files"
      [] a = "Icon"        -> "icon"
      [] a = "Software"    -> "software"
      [] a = "Classes"     -> "classes"
      [] a = DRV           -> "c:\\"
      [] OTHER             -> a

UpperAtom(a) ==
    CASE a = "con"       -> "CON"
      [] a = "Con"       -> "CON"
      [] a = "lpt9"      -> "LPT9"
      [] a = "nul"       -> "NUL"
      [] a = "a"         -> "A"
      [] a = "all_files" -> "ALL_FILES"
      [] a = "x99"       -> "X99"
      [] OTHER           -> a

---------------------------------------------------------------------------
(* Python string functions on atom sequences *)

\* len(s)
RECURSIVE StrLen(_)
StrLen(s) == IF s = <<>> THEN 0 ELSE AtomLen(Head(s)) + StrLen(Tail(s))

\* s.lower(), s.upper()
Lower(s) == [i \in 1..Len(s) |-> LowerAtom(s[i])]
Upper(s) == [i \in 1..Len(s) |-> UpperAtom(s[i])]

\* s.startswith(p)
StartsWith(s, p) == Len(s) >= Len(p) /\ SubSeq(s, 1, Len(p)) = p

\* s.strip(): blanks removed at both ends
RECURSIVE LStrip(_)
LStrip(s) == IF s # <<>> /\ IsSpace(Head(s)) THEN LStrip(Tail(s)) ELSE s
RECURSIVE RStrip(_)
RStrip(s) ==
    IF s # <<>> /\ IsSpace(s[Len(s)]) THEN RStrip(SubSeq(s, 1, Len(s) - 1)) ELSE s
Strip(s) == RStrip(LStrip(s))

\* s.strip('"'): quote characters removed at both ends
RECURSIVE LStripQuote(_)
LStripQuote(s) == IF s # <<>> /\ Head(s) = QUOTE THEN LStripQuote(Tail(s)) ELSE s
RECURSIVE RStripQuote(_)
RStripQuote(s) ==
    IF s # <<>> /\ s[Len(s)] = QUOTE
    THEN RStripQuote(SubSeq(s, 1, Len(s) - 1)) ELSE s
StripQuotes(s) == RStripQuote(LStripQuote(s))

\* The first blank-delimited token of s: s.split()[0] (<<>> when there is none).
RECURSIVE TakeWord(_)
TakeWord(s) ==
    IF s = <<>> \/ IsSpace(Head(s)) THEN <<>> ELSE <<Head(s)>> \o TakeWord(Tail(s))
FirstToken(s) == TakeWord(LStrip(s))

\* os.path.basename (ntpath): what follows the last separator or drive root.
RECURSIVE Basename(_)
Basename(p) ==
    IF p = <<>> THEN <<>>
    ELSE IF IsSep(p[Len(p)]) THEN <<>>
    ELSE Basename(SubSeq(p, 1, Len(p) - 1)) \o <<p[Len(p)]>>

\* os.path.isabs (ntpath before Python 3.13): after the drive, the path
\* starts with a separator.
IsAbs(p) == p # <<>> /\ Head(p) \in {DRV, BSL, "/"}

\* The files of the machine the validators look at with os.path.exists and
\* os.path.getsize: path -> size in bytes.
FileSize ==
    (<<DRV, "tool.exe">> :> 40960) @@
    (<<DRV, "app.ico">>  :> 4096) @@
    (<<DRV, "big.ico">>  :> 10485761) @@
    (<<DRV, "doc.txt">>  :> 12)

\* os.path.exists
PathExists(p) == p \in DOMAIN FileSize

\* os.path.splitext(p)[1].lower() of the paths the model uses
ExtOf(p) ==
    IF p = <<>> THEN ""
    ELSE CASE p[Len(p)] \in {"app.ico", "big.ico", "ghost.ico"} -> ".ico"
           [] p[Len(p)] = "doc.txt" -> ".txt"
           [] p[Len(p)] \in {"tool.exe", "notepad.exe", "malware.exe"} -> ".exe"
           [] OTHER -> ""

---------------------------------------------------------------------------
(* config.py, utils.py *)

MAX_COMMAND_LENGTH == 2000
MAX_NAME_LENGTH    == 100
MAX_ICON_SIZE_MB   == 10
MAX_IMPORT_COUNT   == 1000
MAX_ERRORS_SHOWN   == 5

SAFE_EXECUTABLES ==
    { <<"notepad.exe">>, <<"code.exe">>, <<"cmd.exe">>, <<"powershell.exe">>,
      <<"explorer.exe">>, <<"mspaint.exe">>, <<"calc.exe">>, <<"wordpad.exe">>,
      <<"python.exe">>, <<"pythonw.exe">>, <<"git.exe">>, <<"vim.exe">> }

RESERVED_NAMES ==
    { <<"CON">>, <<"PRN">>, <<"AUX">>, <<"NUL">>,
      <<"COM1">>, <<"COM2">>, <<"COM3">>, <<"COM4">>, <<"COM5">>, <<"COM6">>,
      <<"COM7">>, <<"COM8">>, <<"COM9">>,
      <<"LPT1">>, <<"LPT2">>, <<"LPT3">>, <<"LPT4">>, <<"LPT5">>, <<"LPT6">>,
      <<"LPT7">>, <<"LPT8">>, <<"LPT9">> }

ICON_EXTENSIONS == {".ico", ".exe", ".dll"}

\* re.search(pattern, command, re.IGNORECASE) for some pattern of
\* DANGEROUS_PATTERNS.  The patterns that are plain words match when some
\* atom, lower-cased, is one of the words; every other pattern needs a
\* word followed by white space and a second word or a drive, or a word that
\* no atom of the model holds.
DangerousMatch(command) ==
    \E i \in 1..Len(command) : LowerAtom(command[i]) \in {"shutdown", "restart", "bcdedit", "diskpart"}


---------------------------------------------------------------------------
(* core/security.py: SecurityValidator *)

Ok           == [ok |-> TRUE,  reason |-> "OK"]
Rejected(why) == [ok |-> FALSE, reason |-> why]

\* The executable name of the whitelist step: parts[0].strip('"'), its base
\* name, lower-cased.
ExePath(command) == StripQuotes(FirstToken(command))
ExeName(command) == Lower(Basename(ExePath(command)))

\* A whitelist step that tests an absolute path for existence before it
\* looks at the whitelist.
WhitelistCheck_path_first(command) ==
    LET exe_name == ExeName(command)
        exe_path == ExePath(command)
    IN  IF IsAbs(exe_path)
        THEN IF ~PathExists(exe_path) THEN Rejected("exe_not_found") ELSE Ok
        ELSE IF exe_name # <<>> /\ exe_name \notin SAFE_EXECUTABLES
        THEN Rejected("not_whitelisted")
        ELSE Ok

\* The whitelist step of validate_command (lines 54-66): "OK" or the reason.
WhitelistCheck(command) ==
    LET exe_name == ExeName(command)
        exe_path == ExePath(command)
    IN  IF exe_name # <<>> /\ exe_name \notin SAFE_EXECUTABLES
        THEN IF IsAbs(exe_path)
             THEN IF ~PathExists(exe_path) THEN Rejected("exe_not_found") ELSE Ok
             ELSE Rejected("not_whitelisted")
        ELSE Ok

validate_command(command) ==
    IF command = <<>> \/ Strip(command) = <<>> THEN Rejected("empty")
    ELSE IF StrLen(command) > MAX_COMMAND_LENGTH THEN Rejected("too_long")
    ELSE IF \E i \in 1..Len(command) : command[i] = NUL THEN Rejected("null_char")
    ELSE IF DangerousMatch(command) THEN Rejected("dangerous")
    ELSE IF StartsWith(command, <<BSL, BSL>>) THEN Rejected("network_path")
    ELSE WhitelistCheck(command)

\* The characters of invalid_chars = '<>:"/\|?*' an atom contains.
HasInvalidChar(a) == a \in {"<", ">", ":", QUOTE, "/", BSL, "|", "?", "*", DRV}

\* A validate_name that compares with the reserved names as written.
validate_name_case_sensitive(name) ==
    IF name = <<>> \/ Strip(name) = <<>> THEN Rejected("empty")
    ELSE IF StrLen(name) > MAX_NAME_LENGTH THEN Rejected("too_long")
    ELSE IF \E i \in 1..Len(name) : HasInvalidChar(name[i])
         THEN Rejected("invalid_char")
    ELSE IF name \in RESERVED_NAMES THEN Rejected("reserved")
    ELSE Ok

validate_name(name) ==
    IF name = <<>> \/ Strip(name) = <<>> THEN Rejected("empty")
    ELSE IF StrLen(name) > MAX_NAME_LENGTH THEN Rejected("too_long")
    ELSE IF \E i \in 1..Len(name) : HasInvalidChar(name[i])
         THEN Rejected("invalid_char")
    ELSE IF Upper(name) \in RESERVED_NAMES THEN Rejected("reserved")
    ELSE Ok

validate_icon_path(path) ==
    IF path = <<>> THEN Ok
    ELSE IF StartsWith(path, <<BSL, BSL>>) THEN Rejected("network_path")
    ELSE IF ~PathExists(path) THEN Rejected("file_not_found")
    ELSE IF ExtOf(path) \notin ICON_EXTENSIONS THEN Rejected("bad_extension")
    ELSE IF FileSize[path] > MAX_ICON_SIZE_MB * 1024 * 1024
         THEN Rejected("too_large")
    ELSE Ok

---------------------------------------------------------------------------
(* The registry (winreg) below HKEY_CURRENT_USER.                          *)
(* A key is the sequence of the components of its path; key names are not  *)
(* case sensitive, so components are kept lower-cased.  store maps every   *)
(* existing key to its values (value name -> data).                        *)

\* An optional value: None, or Some(x).
None    == <<>>
Some(x) == <<x>>
NoVals  == [v \in {} |-> <<>>]

\* The key a path string names: the path is cut at its backslashes.
RECURSIVE SplitKey(_, _)
SplitKey(s, cur) ==
    IF s = <<>> THEN (IF cur = <<>> THEN <<>> ELSE <<cur>>)
    ELSE IF Head(s) = BSL
         THEN (IF cur = <<>> THEN <<>> ELSE <<cur>>) \o SplitKey(Tail(s), <<>>)
    ELSE IF Head(s) = DRV
         THEN <<cur \o <<"c:">> >> \o SplitKey(Tail(s), <<>>)
    ELSE SplitKey(Tail(s), cur \o <<LowerAtom(Head(s))>>)

KeyOf(path) == SplitKey(path, <<>>)

KeyExists(st, k) == k \in DOMAIN st

IsPrefix(k, x) == Len(x) >= Len(k) /\ SubSeq(x, 1, Len(k)) = k

\* The names winreg.EnumKey yields for key k.
SubKeyNames(st, k) ==
    { x[Len(x)] : x \in { y \in DOMAIN st : Len(y) = Len(k) + 1 /\ IsPrefix(k, y) } }

\* winreg.CreateKeyEx: the key and every missing ancestor are created; an
\* existing key is opened as it is.
CreateKeyEx(st, k) ==
    LET new == { SubSeq(k, 1, i) : i \in 1..Len(k) } \ DOMAIN st
    IN  [x \in new |-> NoVals] @@ st

\* A SetValueEx whose write is lost.
SetValueEx_lost(st, k, vname, data) == st

\* winreg.SetValueEx(key, vname, 0, REG_SZ, data)
SetValueEx(st, k, vname, data) ==
    [st EXCEPT ![k] = (vname :> data) @@ st[k]]

\* winreg.DeleteKey of a key without subkeys
DeleteKey(st, k) == [x \in DOMAIN st \ {k} |-> st[x]]

---------------------------------------------------------------------------
(* core/compatibility.py: SystemCompatibility *)

Joined(a, b) == a \o <<BSL>> \o b

ALL_FILES_BASE  == <<"Software", BSL, "Classes", BSL, "*", BSL, "shell">>
FOLDER_BASE     == <<"Software", BSL, "Classes", BSL, "Directory", BSL, "shell">>
BACKGROUND_BASE ==
    <<"Software", BSL, "Classes", BSL, "Directory", BSL, "Background", BSL, "shell">>

\* target_type.startswith('.')
StartsWithDot(s) == s # <<>> /\ Head(s) \in {".", ".txt", ".py"}

\* A resolution without the fallback: an unknown scope names its own base.
get_registry_base_path_no_fallback(target_type) ==
    IF target_type = <<"all_files">> THEN ALL_FILES_BASE
    ELSE IF target_type = <<"folder">> THEN FOLDER_BASE
    ELSE IF target_type = <<"background">> THEN BACKGROUND_BASE
    ELSE <<"Software", BSL, "Classes", BSL>> \o target_type \o <<BSL, "shell">>

get_registry_base_path(target_type) ==
    IF StartsWithDot(target_type)
    THEN <<"Software", BSL, "Classes", BSL>> \o target_type \o <<BSL, "shell">>
    ELSE CASE target_type = <<"all_files">>  -> ALL_FILES_BASE
           [] target_type = <<"folder">>     -> FOLDER_BASE
           [] target_type = <<"background">> -> BACKGROUND_BASE
           [] OTHER                          -> ALL_FILES_BASE

\* A conflict check that reads the default value of the menu key.
check_registry_conflict_menu_key(st, name, target_type, fault) ==
    LET k == KeyOf(Joined(get_registry_base_path(target_type), name))
    IN  IF k \notin DOMAIN st \/ fault \/ "" \notin DOMAIN st[k]
        THEN [found |-> FALSE, command |-> None]
        ELSE [found |-> TRUE, command |-> Some(st[k][""])]

\* A conflict check that takes a missing default value for an empty one.
check_registry_conflict_empty_default(st, name, target_type, fault) ==
    LET k == KeyOf(Joined(Joined(get_registry_base_path(target_type), name),
                             <<"command">>))
    IN  IF k \notin DOMAIN st \/ fault
        THEN [found |-> FALSE, command |-> None]
        ELSE IF "" \notin DOMAIN st[k] THEN [found |-> TRUE, command |-> Some(<<>>)]
        ELSE [found |-> TRUE, command |-> Some(st[k][""])]

\* A conflict check that is answered by the menu key alone.
check_registry_conflict_any_key(st, name, target_type, fault) ==
    LET m == KeyOf(Joined(get_registry_base_path(target_type), name))
        k == Append(m, <<"command">>)
    IN  IF ~KeyExists(st, m) \/ fault THEN [found |-> FALSE, command |-> None]
        ELSE IF ~KeyExists(st, k) \/ "" \notin DOMAIN st[k]
        THEN [found |-> TRUE, command |-> Some(<<>>)]
        ELSE [found |-> TRUE, command |-> Some(st[k][""])]

\* check_registry_conflict.  fault: the backend answers OpenKey or
\* QueryValueEx on the existing key with an error other than "not found".
check_registry_conflict(st, name, target_type, fault) ==
    LET base_path == get_registry_base_path(target_type)
        key_path  == Joined(Joined(base_path, name), <<"command">>)
        k         == KeyOf(key_path)
    IN  IF ~KeyExists(st, k) THEN [found |-> FALSE, command |-> None]
        ELSE IF fault THEN [found |-> FALSE, command |-> None]
        ELSE IF "" \notin DOMAIN st[k] THEN [found |-> FALSE, command |-> None]
        ELSE [found |-> TRUE, command |-> Some(st[k][""])]

\* A snapshot that gives None for a missing key.
backup_registry_key_none_if_missing(st, key_path, now, fault, seen) ==
    LET k == KeyOf(key_path)
    IN  IF ~KeyExists(st, k) \/ fault = "open" THEN None
        ELSE Some([path |-> key_path,
                   values |-> [v \in (IF fault = "enum" THEN seen ELSE {"", "Icon"})
                                       \cap DOMAIN st[k]
                                 |-> [value |-> st[k][v], type |-> "REG_SZ"]],
                   timestamp |-> now])

\* backup_registry_key.  now: the value of datetime.now().  fault = "open":
\* OpenKey on the existing key fails with an error other than "not found";
\* fault = "enum": EnumValue fails after the values in seen were read, which
\* ends the loop like the end of the enumeration does.
backup_registry_key(st, key_path, now, fault, seen) ==
    LET k == KeyOf(key_path)
        read(names) ==
            Some([path |-> key_path,
                  values |-> [v \in names |-> [value |-> st[k][v], type |-> "REG_SZ"]],
                  timestamp |-> now])
    IN  IF ~KeyExists(st, k)
        THEN Some([path |-> key_path, values |-> NoVals, timestamp |-> now])
        ELSE IF fault = "open" THEN None
        ELSE IF fault = "enum" THEN read(seen \cap DOMAIN st[k])
        ELSE read(DOMAIN st[k])

---------------------------------------------------------------------------
(* Calls.  A thread is idle or inside one call; call[t] holds the call's   *)
(* arguments and locals, and what it has done so far.                      *)

Threads  == {"t1", "t2"}
MaxCalls == 3

NoCall ==
    [op |-> "none", name |-> <<>>, command |-> <<>>, target_type |-> <<>>,
     icon_path |-> <<>>, db |-> FALSE,
     menu_key_path |-> <<>>,       \* local menu_key_path / key_path
     backup_data |-> None,         \* local backup_data
     stack |-> <<>>,               \* frames of _delete_registry_key_recursive
     saved |-> FALSE,              \* a registry_backups row was committed
     wrote |-> FALSE,              \* the call has changed the registry
     steps |-> <<>>,               \* the backend operations performed, in order
     faults |-> {},                \* the operations the backend failed
     visited |-> {},               \* remove: the keys an invocation was made for
     enumerated |-> {},            \* remove: the keys EnumKey yielded
     vanished |-> {},              \* remove: the keys found missing
     failed |-> {},                \* remove: the keys whose invocation failed
     deleted |-> {},               \* remove: the keys DeleteKey deleted
     store0 |-> <<>>, backups0 |-> <<>>,   \* registry and ledger at the start
     after_remove |-> None]        \* the path the call before this one removed

NoLast == [c |-> NoCall, ret |-> None]

\* Some(path) when the call that returned last was a remove_shortcut of path
\* that reported success.
RemovedJustBefore ==
    IF last.c.op = "remove" /\ last.ret.ok THEN Some(last.c.menu_key_path) ELSE None

Idle(t) == pc[t] = "idle"

NewCall(op, name, command, target_type, icon_path, db) ==
    [NoCall EXCEPT !.op = op, !.name = name, !.command = command,
                   !.target_type = target_type, !.icon_path = icon_path,
                   !.db = db, !.store0 = store, !.backups0 = backups,
                   !.after_remove = RemovedJustBefore]

\* The call of thread t returns r; c is its final record.
Return(t, c, r) ==
    /\ pc'   = [pc EXCEPT ![t] = "idle"]
    /\ call' = [call EXCEPT ![t] = NoCall]
    /\ last' = [c |-> c, ret |-> r]

\* The call of thread t goes on at position p with record c.  last describes
\* the state a call has just returned into, and is reset once the next call
\* is under way.
Goto(t, c, p) ==
    /\ pc'   = [pc EXCEPT ![t] = p]
    /\ call' = [call EXCEPT ![t] = c]
    /\ last' = NoLast

Did(c, step) == [c EXCEPT !.steps = Append(@, step)]
Failed(c, step) == [c EXCEPT !.steps = Append(@, step), !.faults = @ \cup {step}]

Result(ok, kind, reason) == [ok |-> ok, kind |-> kind, reason |-> reason]

---------------------------------------------------------------------------
(* models/database.py: the registry_backups table *)

\* save_registry_backup: the INSERT, committed by DatabaseManager.__exit__.
save_registry_backup(rows, name, backup_data) ==
    Append(rows, [shortcut_name |-> name, backup_data |-> backup_data])

\* The tables shortcuts and audit_log, and the AUTOINCREMENT counter of
\* shortcuts, as init_database leaves them (lines 30-101).
NoTables == [shortcuts |-> <<>>, audit_log |-> <<>>, seq |-> 0]

\* What a call on the database returns: add_shortcut an id or None (id 0),
\* delete_shortcut and toggle_active a bool, import_from_json its three
\* counts, get_all_shortcuts and get_audit_log their rows.  done tells that
\* the call's transaction was committed.
LedgerRet(ok, id) ==
    [ok |-> ok, id |-> id, success |-> 0, skipped |-> 0, errors |-> 0,
     done |-> FALSE, rows |-> <<>>]

\* A call on the database: its arguments and its locals.
NoLedgerCall ==
    [op |-> "none", id |-> 0, name |-> <<>>, command |-> <<>>,
     target_type |-> <<>>, icon_path |-> <<>>, applied |-> FALSE,
     exc |-> FALSE,            \* an exception is leaving the with block
     ret |-> LedgerRet(FALSE, 0),  \* the value of the return statement reached
     row |-> None,             \* delete_shortcut: the row fetched
     limit |-> 0,              \* get_audit_log: limit
     created_at |-> 0,         \* CURRENT_TIMESTAMP of the INSERT into shortcuts
     timestamp |-> 0,          \* CURRENT_TIMESTAMP of the INSERT into audit_log
     importing |-> FALSE,      \* add_shortcut called by import_from_json
     batch |-> <<>>,           \* import: sanitized_data['shortcuts']
     at |-> 0,                 \* import: the item the loop is at
     existing |-> {},          \* import: local existing
     success_count |-> 0, skip_count |-> 0, errors |-> 0,
     import0 |-> NoTables,     \* the committed tables when the import began
     tables0 |-> NoTables]     \* the committed tables when the call began

\* committed: what a new connection reads.  conn: the open connection's
\* view, None when no connection is open.  last: the call that returned
\* last.  trues and flips count, per id, the committed UPDATEs with
\* applied = True on an existing row, and the times the committed
\* is_system_applied of the row went from 0 to 1.  now: the clock that
\* CURRENT_TIMESTAMP reads, in whole seconds.
LedgerInit ==
    [committed |-> NoTables, conn |-> None, pc |-> "idle",
     cur |-> NoLedgerCall,
     last |-> [c |-> NoLedgerCall, ret |-> LedgerRet(FALSE, 0)],
     n |-> 0, now |-> 0, trues |-> <<>>, flips |-> <<>>]

\* managers/async_task.py: AsyncTaskManager after __init__, with a callback.
\* worker[i] is the thread of the i-th run_async; queue is self.queue; poll
\* is the position of the thread inside check_queue and item what it took
\* from the queue.  puts and calls record every queue.put and every call of
\* the callback, calls with the thread that made it.
AsyncInit ==
    [worker |-> <<>>, queue |-> <<>>, poll |-> "idle", item |-> None,
     puts |-> <<>>, calls |-> <<>>]

---------------------------------------------------------------------------
(* managers/menu.py: ContextMenuManager.apply_shortcut *)

\* A validation that looks at the command before the name.
ApplyValidation_command_first(name, command, icon_path) ==
    IF ~validate_command(command).ok
    THEN Result(FALSE, "command_error", validate_command(command).reason)
    ELSE IF ~validate_name(name).ok
    THEN Result(FALSE, "name_error", validate_name(name).reason)
    ELSE IF icon_path # <<>> /\ ~validate_icon_path(icon_path).ok
    THEN Result(FALSE, "icon_error", validate_icon_path(icon_path).reason)
    ELSE Result(TRUE, "valid", "OK")

\* The three validators in the order of lines 188-199: the first failure.
ApplyValidation(name, command, icon_path) ==
    IF ~validate_name(name).ok
    THEN Result(FALSE, "name_error", validate_name(name).reason)
    ELSE IF ~validate_command(command).ok
    THEN Result(FALSE, "command_error", validate_command(command).reason)
    ELSE IF icon_path # <<>> /\ ~validate_icon_path(icon_path).ok
    THEN Result(FALSE, "icon_error", validate_icon_path(icon_path).reason)
    ELSE Result(TRUE, "valid", "OK")

\* Lines 172-199: entry and validation.
ApplyStart(t, name, command, target_type, icon_path, db) ==
    /\ Idle(t) /\ ncalls < MaxCalls
    /\ ncalls' = ncalls + 1
    /\ LET c == NewCall("apply", name, command, target_type, icon_path, db)
           v == ApplyValidation(name, command, icon_path)
       IN  IF v.ok THEN Goto(t, c, "conflict") ELSE Return(t, c, v)
    /\ UNCHANGED <<store, backups, probe, ledger, async>>

\* Lines 201-209: the conflict check, then the path of the menu key.
ApplyConflict(t) ==
    /\ pc[t] = "conflict"
    /\ \E fault \in BOOLEAN :
         LET c0 == call[t]
             k  == KeyOf(Joined(Joined(get_registry_base_path(c0.target_type),
                                       c0.name), <<"command">>))
             hit == fault /\ KeyExists(store, k)
             r  == check_registry_conflict(store, c0.name, c0.target_type, fault)
             c1 == IF hit THEN Failed(c0, "lookup") ELSE Did(c0, "lookup")
             c2 == [c1 EXCEPT !.menu_key_path =
                        Joined(get_registry_base_path(c0.target_type), c0.name)]
         IN  IF r.found
             THEN Return(t, c1, Result(FALSE, "exists", "already exists"))
             ELSE Goto(t, c2, "backup")
    /\ UNCHANGED <<store, backups, ncalls, probe, ledger, async>>

\* Lines 211-214: the snapshot of the menu key, when a database was given.
ApplyBackup(t) ==
    /\ pc[t] = "backup"
    /\ LET c0 == call[t]
       IN  IF ~c0.db THEN Goto(t, c0, "create_menu")
           ELSE \E fault \in {"none", "open", "enum"}, seen \in SUBSET {"", "Icon"} :
                  LET k   == KeyOf(c0.menu_key_path)
                      hit == fault # "none" /\ KeyExists(store, k)
                      b   == backup_registry_key(store, c0.menu_key_path, ncalls,
                                                 fault, seen)
                      c1  == IF hit THEN Failed(c0, "snapshot") ELSE Did(c0, "snapshot")
                      c2  == [c1 EXCEPT !.backup_data = b]
                  IN  IF b # None THEN Goto(t, c2, "save")
                                  ELSE Goto(t, c2, "create_menu")
    /\ UNCHANGED <<store, backups, ncalls, probe, ledger, async>>

\* Line 215: db.save_registry_backup.  A failing INSERT or commit is caught
\* inside save_registry_backup (database.py lines 264-265) and not reported.
ApplySave(t) ==
    /\ pc[t] = "save"
    /\ \E fault \in BOOLEAN :
         LET c0 == call[t]
         IN  IF fault
             THEN /\ Goto(t, Failed(c0, "save"), "create_menu")
                  /\ UNCHANGED backups
             ELSE /\ backups' = save_registry_backup(backups, c0.name, c0.backup_data[1])
                  /\ Goto(t, [Did(c0, "save") EXCEPT !.saved = TRUE], "create_menu")
    /\ UNCHANGED <<store, ncalls, probe, ledger, async>>

ApplyFailed == Result(FALSE, "apply_failed", "backend error")

\* Lines 218-221: CreateKeyEx of the menu key.
ApplyCreateMenu(t) ==
    /\ pc[t] = "create_menu"
    /\ \E fault \in BOOLEAN :
         LET c0 == call[t]
             k  == KeyOf(c0.menu_key_path)
         IN  IF fault
             THEN /\ Return(t, Failed(c0, "create_menu"), ApplyFailed)
                  /\ UNCHANGED store
             ELSE /\ store' = CreateKeyEx(store, k)
                  /\ Goto(t, [Did(c0, "create_menu") EXCEPT !.wrote = TRUE],
                          IF c0.icon_path # <<>> THEN "set_icon" ELSE "create_cmd")
    /\ UNCHANGED <<backups, ncalls, probe, ledger, async>>

\* Lines 224-227: SetValueEx of the Icon value through the open handle.
ApplySetIcon(t) ==
    /\ pc[t] = "set_icon"
    /\ \E fault \in BOOLEAN :
         LET c0 == call[t]
             k  == KeyOf(c0.menu_key_path)
         IN  IF fault \/ ~KeyExists(store, k)
             THEN /\ Return(t, Failed(c0, "set_icon"), ApplyFailed)
                  /\ UNCHANGED store
             ELSE /\ store' = SetValueEx(store, k, "Icon", c0.icon_path)
                  /\ Goto(t, Did(c0, "set_icon"), "create_cmd")
    /\ UNCHANGED <<backups, ncalls, probe, ledger, async>>

\* Lines 230-234: CreateKeyEx of the command key.
ApplyCreateCommand(t) ==
    /\ pc[t] = "create_cmd"
    /\ \E fault \in BOOLEAN :
         LET c0 == call[t]
             k  == KeyOf(Joined(c0.menu_key_path, <<"command">>))
         IN  IF fault
             THEN /\ Return(t, Failed(c0, "create_cmd"), ApplyFailed)
                  /\ UNCHANGED store
             ELSE /\ store' = CreateKeyEx(store, k)
                  /\ Goto(t, Did(c0, "create_cmd"), "set_cmd")
    /\ UNCHANGED <<backups, ncalls, probe, ledger, async>>

\* Lines 237-240: SetValueEx of the command, and the successful return.
ApplySetCommand(t) ==
    /\ pc[t] = "set_cmd"
    /\ \E fault \in BOOLEAN :
         LET c0 == call[t]
             k  == KeyOf(Joined(c0.menu_key_path, <<"command">>))
         IN  IF fault \/ ~KeyExists(store, k)
             THEN /\ Return(t, Failed(c0, "set_cmd"), ApplyFailed)
                  /\ UNCHANGED store
             ELSE /\ store' = SetValueEx(store, k, "", c0.command)
                  /\ Return(t, Did(c0, "set_cmd"), Result(TRUE, "applied", "OK"))
    /\ UNCHANGED <<backups, ncalls, probe, ledger, async>>

---------------------------------------------------------------------------
(* managers/menu.py: remove_shortcut and _delete_registry_key_recursive.   *)
(* call[t].stack holds one frame per active invocation of the recursive    *)
(* delete, the innermost last.                                             *)

Frame(key_path) == [key_path |-> key_path, opened |-> FALSE, subkeys |-> {}]

Top(c) == c.stack[Len(c.stack)]
SetTop(c, f) == [c EXCEPT !.stack = [@ EXCEPT ![Len(@)] = f]]

\* A return that gives up the whole removal at the first failure.
ReturnFrame_abort(t, c, ok) ==
    IF Len(c.stack) = 1 \/ ~ok
    THEN Return(t, [c EXCEPT !.stack = <<>>],
                IF ok THEN Result(TRUE, "removed", "OK")
                      ELSE Result(FALSE, "remove_failed", "delete failed"))
    ELSE Goto(t, [c EXCEPT !.stack = SubSeq(@, 1, Len(@) - 1)], "delete")

\* The innermost invocation returns ok.  The value returned to an outer
\* invocation is dropped (line 159); the outermost one decides the result of
\* remove_shortcut (lines 266-269).
ReturnFrame(t, c, ok) ==
    IF Len(c.stack) = 1
    THEN Return(t, [c EXCEPT !.stack = <<>>],
                IF ok THEN Result(TRUE, "removed", "OK")
                      ELSE Result(FALSE, "remove_failed", "delete failed"))
    ELSE Goto(t, [c EXCEPT !.stack = SubSeq(@, 1, Len(@) - 1)], "delete")

\* Lines 256-264: the path of the menu key and the first invocation.
RemoveStart(t, name, target_type) ==
    /\ Idle(t) /\ ncalls < MaxCalls
    /\ ncalls' = ncalls + 1
    /\ LET c0 == NewCall("remove", name, <<>>, target_type, <<>>, FALSE)
           menu_key_path == Joined(get_registry_base_path(target_type), name)
       IN  Goto(t, [c0 EXCEPT !.menu_key_path = menu_key_path,
                              !.stack = <<Frame(menu_key_path)>>], "delete")
    /\ UNCHANGED <<store, backups, probe, ledger, async>>

\* An OpenKey step that reports a missing key as a failure.
RemoveOpen_missing_fails(t) ==
    /\ pc[t] = "delete"
    /\ ~Top(call[t]).opened
    /\ \E fault \in BOOLEAN :
         LET c0 == call[t]
             f  == Top(c0)
             k  == KeyOf(f.key_path)
         IN  IF ~KeyExists(store, k) \/ fault
             THEN ReturnFrame(t, Failed(c0, "open"), FALSE)
             ELSE Goto(t, SetTop(Did(c0, "open"),
                                 [f EXCEPT !.opened = TRUE,
                                           !.subkeys = SubKeyNames(store, k)]),
                       "delete")
    /\ UNCHANGED <<store, backups, ncalls, probe, ledger, async>>

\* Lines 143-155: OpenKey and the enumeration of the subkeys.
RemoveOpen(t) ==
    /\ pc[t] = "delete"
    /\ ~Top(call[t]).opened
    /\ \E fault \in BOOLEAN :
         LET c0 == [call[t] EXCEPT !.visited = @ \cup {KeyOf(Top(call[t]).key_path)}]
             f  == Top(c0)
             k  == KeyOf(f.key_path)
         IN  IF ~KeyExists(store, k)
             THEN ReturnFrame(t, [Did(c0, "open") EXCEPT !.vanished = @ \cup {k}],
                              TRUE)
             ELSE IF fault
             THEN ReturnFrame(t, [Failed(c0, "open") EXCEPT !.failed = @ \cup {k}],
                              FALSE)
             ELSE Goto(t, SetTop([Did(c0, "open") EXCEPT
                                     !.enumerated =
                                         @ \cup { Append(k, sub) :
                                                    sub \in SubKeyNames(store, k) }],
                                 [f EXCEPT !.opened = TRUE,
                                           !.subkeys = SubKeyNames(store, k)]),
                       "delete")
    /\ UNCHANGED <<store, backups, ncalls, probe, ledger, async>>

\* Lines 158-159: the recursive call for one enumerated subkey.
RemoveRecurse(t) ==
    /\ pc[t] = "delete"
    /\ Top(call[t]).opened
    /\ \E sub \in Top(call[t]).subkeys :
         LET c0 == call[t]
             f  == Top(c0)
             c1 == SetTop(c0, [f EXCEPT !.subkeys = @ \ {sub}])
         IN  Goto(t, [c1 EXCEPT !.stack = Append(@, Frame(Joined(f.key_path, sub)))],
                  "delete")
    /\ UNCHANGED <<store, backups, ncalls, probe, ledger, async>>

\* A DeleteKey step whose failure is reported as a success.
RemoveDelete_ignores_error(t) ==
    /\ pc[t] = "delete"
    /\ Top(call[t]).opened
    /\ Top(call[t]).subkeys = {}
    /\ \E fault \in BOOLEAN :
         LET c0 == call[t]
             k  == KeyOf(Top(c0).key_path)
         IN  IF ~KeyExists(store, k)
             THEN /\ ReturnFrame(t, [Did(c0, "delete") EXCEPT !.vanished = @ \cup {k}],
                                 TRUE)
                  /\ UNCHANGED store
             ELSE IF fault \/ SubKeyNames(store, k) # {}
             THEN /\ ReturnFrame(t, [Failed(c0, "delete") EXCEPT !.failed = @ \cup {k}],
                                 TRUE)
                  /\ UNCHANGED store
             ELSE /\ store' = DeleteKey(store, k)
                  /\ ReturnFrame(t, [Did(c0, "delete") EXCEPT !.wrote = TRUE,
                                                              !.deleted = @ \cup {k}],
                                 TRUE)
    /\ UNCHANGED <<backups, ncalls, probe, ledger, async>>

\* A DeleteKey step that reports a key that has vanished as a failure.
RemoveDelete_missing_fails(t) ==
    /\ pc[t] = "delete"
    /\ Top(call[t]).opened
    /\ Top(call[t]).subkeys = {}
    /\ \E fault \in BOOLEAN :
         LET c0 == call[t]
             k  == KeyOf(Top(c0).key_path)
         IN  IF ~KeyExists(store, k)
             THEN /\ ReturnFrame(t, [Did(c0, "delete") EXCEPT !.vanished = @ \cup {k}],
                                 FALSE)
                  /\ UNCHANGED store
             ELSE IF fault \/ SubKeyNames(store, k) # {}
             THEN /\ ReturnFrame(t, [Failed(c0, "delete") EXCEPT !.failed = @ \cup {k}],
                                 FALSE)
                  /\ UNCHANGED store
             ELSE /\ store' = DeleteKey(store, k)
                  /\ ReturnFrame(t, [Did(c0, "delete") EXCEPT !.wrote = TRUE,
                                                              !.deleted = @ \cup {k}],
                                 TRUE)
    /\ UNCHANGED <<backups, ncalls, probe, ledger, async>>

\* Lines 162-170: DeleteKey of the key itself.  DeleteKey fails on a key
\* that still has subkeys.
RemoveDelete(t) ==
    /\ pc[t] = "delete"
    /\ Top(call[t]).opened
    /\ Top(call[t]).subkeys = {}
    /\ \E fault \in BOOLEAN :
         LET c0 == call[t]
             k  == KeyOf(Top(c0).key_path)
         IN  IF ~KeyExists(store, k)
             THEN /\ ReturnFrame(t, [Did(c0, "delete") EXCEPT !.vanished = @ \cup {k}],
                                 TRUE)
                  /\ UNCHANGED store
             ELSE IF fault \/ SubKeyNames(store, k) # {}
             THEN /\ ReturnFrame(t, [Failed(c0, "delete") EXCEPT !.failed = @ \cup {k}],
                                 FALSE)
                  /\ UNCHANGED store
             ELSE /\ store' = DeleteKey(store, k)
                  /\ ReturnFrame(t, [Did(c0, "delete") EXCEPT !.wrote = TRUE,
                                                              !.deleted = @ \cup {k}],
                                 TRUE)
    /\ UNCHANGED <<backups, ncalls, probe, ledger, async>>

---------------------------------------------------------------------------
(* Direct calls of the two read-only helpers *)

\* SystemCompatibility.check_registry_conflict(name, target_type)
CheckConflict(t, name, target_type) ==
    /\ Idle(t) /\ ncalls < MaxCalls
    /\ ncalls' = ncalls + 1
    /\ \E fault \in BOOLEAN :
         LET c0 == NewCall("check", name, <<>>, target_type, <<>>, FALSE)
             k  == KeyOf(Joined(Joined(get_registry_base_path(target_type), name),
                                <<"command">>))
             c1 == [c0 EXCEPT !.menu_key_path =
                      Joined(Joined(get_registry_base_path(target_type), name),
                             <<"command">>)]
             c2 == IF fault /\ KeyExists(store, k) THEN Failed(c1, "lookup")
                                                   ELSE Did(c1, "lookup")
         IN  Return(t, c2, check_registry_conflict(store, name, target_type, fault))
    /\ UNCHANGED <<store, backups, probe, ledger, async>>

\* SystemCompatibility.backup_registry_key(key_path)
Snapshot(t, key_path) ==
    /\ Idle(t) /\ ncalls < MaxCalls
    /\ ncalls' = ncalls + 1
    /\ \E fault \in {"none", "open", "enum"}, seen \in SUBSET {"", "Icon"} :
         LET c0 == NewCall("snapshot", <<>>, <<>>, <<>>, <<>>, FALSE)
             c1 == [c0 EXCEPT !.menu_key_path = key_path]
             c2 == IF fault # "none" /\ KeyExists(store, KeyOf(key_path))
                   THEN Failed(c1, fault) ELSE Did(c1, "snapshot")
         IN  Return(t, c2, backup_registry_key(store, key_path, ncalls, fault, seen))
    /\ UNCHANGED <<store, backups, probe, ledger, async>>

---------------------------------------------------------------------------
(* The engine driven by one caller *)

nameA   == <<"A">>
cmdEdit == <<"notepad.exe", SP, "%1">>
cmdView == <<"NOTEPAD.EXE">>
iconApp == <<DRV, "app.ico">>

NamePool  == {nameA, <<"con">>}
CmdPool   == {cmdEdit, cmdView, <<"malware.exe">>}
ScopePool == {<<"all_files">>, <<"ALL_FILES">>, <<".txt">>}
IconPool  == {<<>>, iconApp, <<DRV, "doc.txt">>}
PathPool  == { Joined(get_registry_base_path(s), nameA) : s \in ScopePool }

\* The proposals handed to apply_shortcut: every combination for the scopes
\* that resolve to the all-files base, and one proposal for an extension.
ProposalPool ==
    (NamePool \X CmdPool \X {<<"all_files">>, <<"ALL_FILES">>} \X IconPool \X BOOLEAN)
    \cup {<<nameA, cmdEdit, <<".txt">>, <<>>, TRUE>>}

NoProbe == [fn |-> "none", arg |-> <<>>, out |-> None]

Init ==
    /\ store = [k \in {<<<<"software">>>>, <<<<"software">>, <<"classes">>>>} |-> NoVals]
    /\ backups = <<>>
    /\ pc = [t \in Threads |-> "idle"]
    /\ call = [t \in Threads |-> NoCall]
    /\ last = NoLast
    /\ ncalls = 0
    /\ ledger = LedgerInit
    /\ async = AsyncInit
    /\ probe = NoProbe

Caller == "t1"

Next ==
    \/ \E p \in ProposalPool : ApplyStart(Caller, p[1], p[2], p[3], p[4], p[5])
    \/ ApplyConflict(Caller)
    \/ ApplyBackup(Caller)
    \/ ApplySave(Caller)
    \/ ApplyCreateMenu(Caller)
    \/ ApplySetIcon(Caller)
    \/ ApplyCreateCommand(Caller)
    \/ ApplySetCommand(Caller)
    \/ \E name \in NamePool, target_type \in ScopePool :
          RemoveStart(Caller, name, target_type)
    \/ RemoveOpen(Caller)
    \/ RemoveRecurse(Caller)
    \/ RemoveDelete(Caller)
    \/ \E name \in NamePool, target_type \in ScopePool :
          CheckConflict(Caller, name, target_type)
    \/ \E key_path \in PathPool : Snapshot(Caller, key_path)

Spec == Init /\ [][Next]_vars

---------------------------------------------------------------------------
(* remove_shortcut on a populated registry, next to another actor.  The    *)
(* registry holds two applied shortcuts under the all-files base: A, to    *)
(* which another program has added the keys extra and extra\deep, and B.   *)
(* remove_shortcut is called with any name string (it validates nothing),  *)
(* and between its steps another actor may delete keys of the shortcut A.   *)

RemoveNamePool == {nameA, <<>>, <<"A", BSL, "extra">>}

RemoveStore ==
    LET base == KeyOf(ALL_FILES_BASE)
        a    == Append(base, <<"a">>)
        b    == Append(base, <<"b">>)
        s1 == CreateKeyEx([k \in {<<<<"software">>>>,
                                  <<<<"software">>, <<"classes">>>>} |-> NoVals],
                          Append(a, <<"command">>))
        s2 == SetValueEx(s1, Append(a, <<"command">>), "", cmdEdit)
        s3 == CreateKeyEx(s2, Append(Append(a, <<"extra">>), <<"deep">>))
        s4 == CreateKeyEx(s3, Append(b, <<"command">>))
    IN  SetValueEx(s4, Append(b, <<"command">>), "", cmdView)

InitRemove ==
    /\ store = RemoveStore
    /\ backups = <<>>
    /\ pc = [t \in Threads |-> "idle"]
    /\ call = [t \in Threads |-> NoCall]
    /\ last = NoLast
    /\ ncalls = 0
    /\ ledger = LedgerInit
    /\ async = AsyncInit
    /\ probe = NoProbe

\* Another actor deletes a key without subkeys of the shortcut A.
OtherDelete ==
    /\ \E k \in DOMAIN store :
         /\ IsPrefix(KeyOf(Joined(ALL_FILES_BASE, nameA)), k)
         /\ SubKeyNames(store, k) = {}
         /\ store' = DeleteKey(store, k)
    /\ UNCHANGED <<backups, pc, call, last, ncalls, probe, ledger, async>>

NextRemove ==
    \/ \E name \in RemoveNamePool : RemoveStart(Caller, name, <<"all_files">>)
    \/ RemoveOpen(Caller)
    \/ RemoveRecurse(Caller)
    \/ RemoveDelete(Caller)
    \/ OtherDelete

SpecRemove == InitRemove /\ [][NextRemove]_vars

---------------------------------------------------------------------------
(* Two callers of apply_shortcut at once.  Thread t1 applies shortcut A    *)
(* with one command and an icon, thread t2 applies A for the same scope    *)
(* with another command and no icon; nothing in apply_shortcut holds a     *)
(* lock, so the steps of the two calls interleave at every registry        *)
(* operation.  The backend answers every operation.                        *)

RaceProposal(t) ==
    IF t = "t1" THEN <<nameA, cmdEdit, <<"all_files">>, iconApp, FALSE>>
                ELSE <<nameA, cmdView, <<"all_files">>, <<>>, FALSE>>

\* The step of thread t met no backend failure.
Answered(t) ==
    IF pc'[t] = "idle" THEN last'.c.faults = {} ELSE call'[t].faults = {}

NextRace ==
    \/ \E t \in Threads :
          /\ ApplyStart(t, RaceProposal(t)[1], RaceProposal(t)[2],
                        RaceProposal(t)[3], RaceProposal(t)[4], RaceProposal(t)[5])
          /\ Answered(t)
    \/ \E t \in Threads : ApplyConflict(t) /\ Answered(t)
    \/ \E t \in Threads : ApplyBackup(t) /\ Answered(t)
    \/ \E t \in Threads : ApplyCreateMenu(t) /\ Answered(t)
    \/ \E t \in Threads : ApplySetIcon(t) /\ Answered(t)
    \/ \E t \in Threads : ApplyCreateCommand(t) /\ Answered(t)
    \/ \E t \in Threads : ApplySetCommand(t) /\ Answered(t)

SpecRace == Init /\ [][NextRace]_vars

---------------------------------------------------------------------------
(* validate_command as a function of every command over a small alphabet *)

MaxCmdAtoms == 4

CmdAtoms ==
    {SP, QUOTE, BSL, NUL, DRV, "notepad.exe", "NOTEPAD.EXE", "malware.exe",
     "tool.exe", "Shutdown", "x1988", "%1"}

CommandUniverse == UNION { [1..n -> CmdAtoms] : n \in 0..MaxCmdAtoms }

InitValidate ==
    /\ store = [k \in {} |-> NoVals]
    /\ backups = <<>>
    /\ pc = [t \in Threads |-> "idle"]
    /\ call = [t \in Threads |-> NoCall]
    /\ last = NoLast
    /\ ncalls = 0
    /\ ledger = LedgerInit
    /\ async = AsyncInit
    /\ \E command \in CommandUniverse :
         probe = [fn |-> "none", arg |-> command, out |-> None]

\* SecurityValidator.validate_command(probe.arg)
ValidateCommand ==
    /\ probe.fn = "none"
    /\ probe' = [fn |-> "validate_command", arg |-> probe.arg,
                 out |-> Some(validate_command(probe.arg))]
    /\ UNCHANGED <<store, backups, pc, call, last, ncalls, ledger, async>>

NextValidate == ValidateCommand

SpecValidate == InitValidate /\ [][NextValidate]_vars

---------------------------------------------------------------------------
(* validate_name as a function of every name over a small alphabet *)

MaxNameAtoms == 3

NameAtoms ==
    {SP, "A", "con", "Con", "CON", "lpt9", "nul", "x99",
     "<", ">", ":", QUOTE, "/", BSL, "|", "?", "*"}

NameUniverse == UNION { [1..n -> NameAtoms] : n \in 0..MaxNameAtoms }

InitName ==
    /\ store = [k \in {} |-> NoVals]
    /\ backups = <<>>
    /\ pc = [t \in Threads |-> "idle"]
    /\ call = [t \in Threads |-> NoCall]
    /\ last = NoLast
    /\ ncalls = 0
    /\ ledger = LedgerInit
    /\ async = AsyncInit
    /\ \E name \in NameUniverse :
         probe = [fn |-> "none", arg |-> name, out |-> None]

\* SecurityValidator.validate_name(probe.arg)
ValidateName ==
    /\ probe.fn = "none"
    /\ probe' = [fn |-> "validate_name", arg |-> probe.arg,
                 out |-> Some(validate_name(probe.arg))]
    /\ UNCHANGED <<store, backups, pc, call, last, ncalls, ledger, async>>

NextName == ValidateName

SpecName == InitName /\ [][NextName]_vars

---------------------------------------------------------------------------
(* core/security.py: SecurityValidator.sanitize_json_import                *)
(* A JSON value is a record of its Python type t and, in the field of     *)
(* that type, its content: s for a str, n for an int, l for a list, d for  *)
(* a dict (the set of its key-value pairs).                                *)

JStr(s)   == [t |-> "str",  s |-> s,    n |-> 0, l |-> <<>>, d |-> {}]
JInt(n)   == [t |-> "int",  s |-> <<>>, n |-> n, l |-> <<>>, d |-> {}]
JNull     == [t |-> "null", s |-> <<>>, n |-> 0, l |-> <<>>, d |-> {}]
JList(xs) == [t |-> "list", s |-> <<>>, n |-> 0, l |-> xs,   d |-> {}]
JDict(r)  == [t |-> "dict", s |-> <<>>, n |-> 0, l |-> <<>>,
              d |-> { <<k, r[k]>> : k \in DOMAIN r }]

\* bool(j)
Truthy(j) ==
    CASE j.t = "str"  -> j.s # <<>>
      [] j.t = "int"  -> j.n # 0
      [] j.t = "null" -> FALSE
      [] j.t = "list" -> j.l # <<>>
      [] j.t = "dict" -> j.d # {}

\* key in d, and d.get(key, '')
Keys(j) == { p[1] : p \in j.d }
Get(j, key) ==
    IF key \in Keys(j) THEN (CHOOSE p \in j.d : p[1] = key)[2] ELSE JStr(<<>>)

\* A call that ends in an exception instead of a result.
Raised(exc) == [ok |-> FALSE, reason |-> exc, raised |-> TRUE]
IsRaised(r) == "raised" \in DOMAIN r

\* validate_name / validate_command / validate_icon_path called with a JSON
\* value: a falsy value takes the 'not name' branch, a truthy value that is
\* not a str has no strip / startswith attribute.
NameCheck(j) ==
    IF j.t = "str" THEN validate_name(j.s)
    ELSE IF ~Truthy(j) THEN Rejected("empty")
    ELSE Raised("AttributeError")

CommandCheck(j) ==
    IF j.t = "str" THEN validate_command(j.s)
    ELSE IF ~Truthy(j) THEN Rejected("empty")
    ELSE Raised("AttributeError")

\* An icon check that accepts every text.
IconCheck_trusting(j) ==
    IF j.t = "str" \/ ~Truthy(j) THEN Ok ELSE Raised("AttributeError")

IconCheck(j) ==
    IF j.t = "str" THEN validate_icon_path(j.s)
    ELSE IF ~Truthy(j) THEN Ok
    ELSE Raised("AttributeError")

\* One pass of the loop body (lines 168-201) for item shortcut: the item is
\* dropped or kept, with the error message it adds, or the body raises.
Dropped(why) == [kind |-> "drop", error |-> Some(why), clean |-> JNull]

SanitizeItem(shortcut) ==
    IF shortcut.t # "dict" THEN Dropped("bad_format")
    ELSE
      LET name        == Get(shortcut, "name")
          command     == Get(shortcut, "command")
          target_type == Get(shortcut, "target_type")
          icon_path   == Get(shortcut, "icon_path")
          kept(icon, err) ==
              [kind |-> "keep", error |-> err,
               clean |-> JDict([name |-> name, command |-> command,
                                target_type |-> target_type, icon_path |-> icon])]
      IN  IF IsRaised(NameCheck(name)) THEN [Dropped("raise") EXCEPT !.kind = "raise"]
          ELSE IF ~NameCheck(name).ok THEN Dropped(NameCheck(name).reason)
          ELSE IF IsRaised(CommandCheck(command))
               THEN [Dropped("raise") EXCEPT !.kind = "raise"]
          ELSE IF ~CommandCheck(command).ok THEN Dropped(CommandCheck(command).reason)
          ELSE IF ~Truthy(icon_path) THEN kept(icon_path, None)
          ELSE IF IsRaised(IconCheck(icon_path))
               THEN [Dropped("raise") EXCEPT !.kind = "raise"]
          ELSE IF ~IconCheck(icon_path).ok
               THEN kept(JStr(<<>>), Some(IconCheck(icon_path).reason))
          ELSE kept(icon_path, None)


\* An error list that records dropped items only.
HasError_drops_only(o) == o.o.kind = "drop"

HasError(o) == o.o.error # None

\* A count test that rejects MAX_IMPORT_COUNT items too.
TooMany_at_limit(n) == n >= MAX_IMPORT_COUNT

\* Line 161: len(shortcuts) > AppConfig.MAX_IMPORT_COUNT
TooMany(n) == n > MAX_IMPORT_COUNT

\* The result of a rejected batch (lines 150-162).
BatchRejected(why) ==
    [raised |-> FALSE, ok |-> FALSE,
     message |-> [kind |-> why, success |-> 0, errors |-> 0, shown |-> <<>>],
     data |-> JDict([k \in {} |-> JNull])]

sanitize_json_import(data) ==
    IF data.t # "dict" THEN BatchRejected("invalid_format")
    ELSE IF "shortcuts" \notin Keys(data) THEN BatchRejected("no_shortcuts_key")
    ELSE IF Get(data, "shortcuts").t # "list" THEN BatchRejected("not_a_list")
    ELSE IF TooMany(Len(Get(data, "shortcuts").l)) THEN BatchRejected("too_many")
    ELSE
      LET shortcuts == Get(data, "shortcuts").l
          pass   == [i \in 1..Len(shortcuts) |->
                        [item |-> i, o |-> SanitizeItem(shortcuts[i])]]
          keptP  == SelectSeq(pass, LAMBDA o : o.o.kind = "keep")
          errP   == SelectSeq(pass, HasError)
          sanitized_shortcuts == [i \in 1..Len(keptP) |-> keptP[i].o.clean]
          errors == [i \in 1..Len(errP) |->
                        [item |-> errP[i].item, reason |-> errP[i].o.error[1]]]
          result_data ==
              JDict([shortcuts |-> JList(sanitized_shortcuts),
                     version |-> Get(data, "version"),
                     export_date |-> Get(data, "export_date")])
      IN  IF \E i \in 1..Len(pass) : pass[i].o.kind = "raise"
          THEN [raised |-> TRUE, ok |-> FALSE,
                message |-> [kind |-> "AttributeError", success |-> 0, errors |-> 0,
                             shown |-> <<>>],
                data |-> JNull]
          ELSE IF errors # <<>>
          THEN [raised |-> FALSE, ok |-> TRUE,
                message |-> [kind |-> "summary", success |-> Len(sanitized_shortcuts),
                             errors |-> Len(errors),
                             shown |-> SubSeq(errors, 1,
                                              IF Len(errors) < MAX_ERRORS_SHOWN
                                              THEN Len(errors) ELSE MAX_ERRORS_SHOWN)],
                data |-> result_data]
          ELSE [raised |-> FALSE, ok |-> TRUE,
                message |-> [kind |-> "imported", success |-> Len(sanitized_shortcuts),
                             errors |-> 0, shown |-> <<>>],
                data |-> result_data]

---------------------------------------------------------------------------
(* sanitize_json_import as a function of a family of import documents *)

MaxItems    == 3
ErrBatchLen == 6

\* An item with the given fields; icon_path is left out when icon is None.
Item(name, command, target_type, icon) ==
    JDict(IF icon = None
          THEN [name |-> name, command |-> command, target_type |-> target_type]
          ELSE [name |-> name, command |-> command, target_type |-> target_type,
                icon_path |-> icon[1]])

itGood     == Item(JStr(<<"A">>), JStr(<<"notepad.exe", SP, "%1">>),
                   JStr(<<"all_files">>), None)
itIcon     == Item(JStr(<<"B">>), JStr(<<"NOTEPAD.EXE">>), JStr(<<".txt">>),
                   Some(JStr(<<DRV, "app.ico">>)))
itBadIcon  == Item(JStr(<<"C">>), JStr(<<"notepad.exe">>), JStr(<<"folder">>),
                   Some(JStr(<<DRV, "doc.txt">>)))
itBadName  == Item(JStr(<<>>), JStr(<<"notepad.exe">>), JStr(<<"all_files">>), None)
itBadCmd   == Item(JStr(<<"D">>), JStr(<<"malware.exe">>), JStr(<<"all_files">>), None)
itNoFields == JDict([k \in {} |-> JNull])
itText     == JStr(<<"A">>)
itNullName == Item(JNull, JStr(<<"notepad.exe">>), JStr(<<"all_files">>), None)
itIntName  == Item(JInt(7), JStr(<<"notepad.exe">>), JStr(<<"all_files">>), None)
itIntScope == Item(JStr(<<"E">>), JStr(<<"notepad.exe">>), JInt(7), None)

ItemPool ==
    {itGood, itIcon, itBadIcon, itBadName, itBadCmd, itNoFields, itText,
     itNullName, itIntName, itIntScope}

Doc(xs) == JDict([shortcuts |-> JList(xs), version |-> JStr(<<"2.1">>)])

DocUniverse ==
    { Doc(xs) : xs \in UNION { [1..n -> ItemPool] : n \in 0..MaxItems } }
    \cup { Doc(xs) : xs \in [1..ErrBatchLen -> {itGood, itBadName, itBadIcon}] }
    \cup { Doc([i \in 1..n |-> x]) : x \in {itGood, itBadCmd, itIntName},
                               n \in {MAX_IMPORT_COUNT, MAX_IMPORT_COUNT + 1} }
    \cup { JStr(<<"A">>), JNull, JList(<<itGood>>),
           JDict([other |-> JList(<<itGood>>)]),
           JDict([shortcuts |-> JStr(<<"A">>)]),
           JDict([shortcuts |-> JNull]),
           JDict([shortcuts |-> itGood]) }

InitSanitize ==
    /\ store = [k \in {} |-> NoVals]
    /\ backups = <<>>
    /\ pc = [t \in Threads |-> "idle"]
    /\ call = [t \in Threads |-> NoCall]
    /\ last = NoLast
    /\ ncalls = 0
    /\ ledger = LedgerInit
    /\ async = AsyncInit
    /\ \E data \in DocUniverse :
         probe = [fn |-> "none", arg |-> data, out |-> None]

\* SecurityValidator.sanitize_json_import(probe.arg)
SanitizeJsonImport ==
    /\ probe.fn = "none"
    /\ probe' = [fn |-> "sanitize_json_import", arg |-> probe.arg,
                 out |-> Some(sanitize_json_import(probe.arg))]
    /\ UNCHANGED <<store, backups, pc, call, last, ncalls, ledger, async>>

NextSanitize == SanitizeJsonImport

SpecSanitize == InitSanitize /\ [][NextSanitize]_vars

---------------------------------------------------------------------------
(* models/database.py: ContextMenuDatabase on core/database.py's           *)
(* DatabaseManager.  Each call opens its own connection; its statements    *)
(* change the connection's view, and __exit__ commits the view or drops it.*)
(* A statement the backend fails raises before it changes anything.        *)

MaxLedgerCalls == 4

Count(f, i) == IF i \in DOMAIN f THEN f[i] ELSE 0
Bump(f, i, k) ==
    [j \in DOMAIN f \cup {i} |-> Count(f, j) + (IF j = i THEN k ELSE 0)]

HasRow(t, id) == \E k \in 1..Len(t.shortcuts) : t.shortcuts[k].id = id
RowOf(t, id) ==
    t.shortcuts[CHOOSE k \in 1..Len(t.shortcuts) : t.shortcuts[k].id = id]

\* INSERT INTO shortcuts (name, command, target_type, icon_path): the id is
\* the AUTOINCREMENT counter's next value, the other columns their defaults,
\* created_at the CURRENT_TIMESTAMP of the statement.
InsertShortcut(t, name, command, target_type, icon_path, created_at) ==
    [t EXCEPT !.seq = @ + 1,
              !.shortcuts = Append(@,
                  [id |-> t.seq + 1, name |-> name, command |-> command,
                   target_type |-> target_type, icon_path |-> icon_path,
                   is_active |-> 1, is_system_applied |-> 0,
                   apply_count |-> 0, created_at |-> created_at])]

\* INSERT INTO audit_log (action, shortcut_name, ...): no row of audit_log
\* is ever deleted, so the AUTOINCREMENT id is the row's position.
InsertAudit_overwrite(t, action, shortcut_name, timestamp) ==
    [t EXCEPT !.audit_log =
                  <<[id |-> 1, action |-> action, shortcut_name |-> shortcut_name,
                     timestamp |-> timestamp]>>]
InsertAudit(t, action, shortcut_name, timestamp) ==
    [t EXCEPT !.audit_log =
                  Append(@, [id |-> Len(@) + 1, action |-> action,
                             shortcut_name |-> shortcut_name,
                             timestamp |-> timestamp])]

\* DELETE FROM shortcuts WHERE id = ?
DeleteRow(t, id) ==
    [t EXCEPT !.shortcuts = SelectSeq(@, LAMBDA r : r.id # id)]

\* The two parameters of the UPDATE of update_system_applied.
AppliedFlag_sticky(applied) == 1
AppliedFlag(applied) == IF applied THEN 1 ELSE 0
ApplyCountStep_double(applied) == IF applied THEN 2 ELSE 0
ApplyCountStep_always(applied) == 1
ApplyCountStep(applied) == IF applied THEN 1 ELSE 0

\* UPDATE shortcuts SET is_system_applied = ?, apply_count = apply_count + ?
\* WHERE id = ?
UpdateApplied(t, id, applied) ==
    [t EXCEPT !.shortcuts =
        [k \in 1..Len(@) |->
            IF @[k].id = id
            THEN [@[k] EXCEPT !.is_system_applied = AppliedFlag(applied),
                              !.apply_count = @ + ApplyCountStep(applied)]
            ELSE @[k]]]

\* UPDATE shortcuts SET is_active = 1 - is_active WHERE id = ?
ToggleRow(t, id) ==
    [t EXCEPT !.shortcuts =
        [k \in 1..Len(@) |->
            IF @[k].id = id THEN [@[k] EXCEPT !.is_active = 1 - @] ELSE @[k]]]

\* {(row['name'], row['target_type']) for row in cursor.fetchall()}
PairsOf(t) ==
    {<<t.shortcuts[k].name, t.shortcuts[k].target_type>> : k \in 1..Len(t.shortcuts)}

OnlyLedger == UNCHANGED <<store, backups, pc, call, last, ncalls, probe, async>>

\* A call begins: nothing is open, the caller has calls left.
Begin(c) ==
    /\ ledger.pc = "idle"
    /\ ledger.n < MaxLedgerCalls
    /\ ledger' = [ledger EXCEPT !.pc = "enter",
                                !.cur = [c EXCEPT !.tables0 = ledger.committed]]
    /\ OnlyLedger

\* The function returns ret.  add_shortcut called by import_from_json
\* returns into the import's loop, any other call to the caller.
Finish(l, ret) ==
    IF l.cur.importing
    THEN [l EXCEPT !.pc = "imp_result", !.cur.ret = ret,
                   !.last = [c |-> l.cur, ret |-> ret]]
    ELSE [l EXCEPT !.pc = "idle", !.cur = NoLedgerCall,
                   !.last = [c |-> l.cur, ret |-> ret], !.n = @ + 1]

\* DatabaseManager.__enter__: connect, or raise; the function's except
\* clause then returns None or False.
Enter ==
    /\ ledger.pc = "enter"
    /\ \E fault \in BOOLEAN :
         ledger' =
           IF fault
           THEN Finish([ledger EXCEPT !.cur.exc = TRUE], LedgerRet(FALSE, 0))
           ELSE [ledger EXCEPT !.conn = Some(ledger.committed),
                               !.pc = CASE ledger.cur.op = "add"    -> "add_row"
                                        [] ledger.cur.op = "delete" -> "del_select"
                                        [] ledger.cur.op = "update" -> "upd_exec"
                                        [] ledger.cur.op = "toggle" -> "tog_exec"
                                        [] ledger.cur.op = "list"   -> "list_exec"
                                        [] ledger.cur.op = "audit"  -> "audit_exec"]
    /\ OnlyLedger

\* One statement of a with block: the backend fails it, and the exception
\* leaves the block, or it changes the connection's view.
Statement(at, fault, conn, next, c) ==
    /\ ledger.pc = at
    /\ ledger' =
         IF fault
         THEN [ledger EXCEPT !.cur.exc = TRUE, !.pc = "exit"]
         ELSE [ledger EXCEPT !.conn = Some(conn), !.cur = c, !.pc = next]
    /\ OnlyLedger

\* DatabaseManager.__exit__ commits when no exception is leaving the block.
Committing_always(exc) == TRUE
Committing(exc) == ~exc

\* DatabaseManager.__exit__: commit or rollback, either of which may fail
\* (the sqlite3.Error is caught), then close, which drops what was not
\* committed.  The exception goes on to the function's except clause.
Exit ==
    /\ ledger.pc = "exit"
    /\ \E fault \in BOOLEAN :
         LET c      == ledger.cur
             commit == Committing(c.exc) /\ ~fault
             t      == IF commit THEN ledger.conn[1] ELSE ledger.committed
             hit    == commit /\ c.op = "update" /\ c.applied /\ HasRow(t, c.id)
             flip   == /\ HasRow(ledger.committed, c.id) /\ HasRow(t, c.id)
                       /\ RowOf(ledger.committed, c.id).is_system_applied = 0
                       /\ RowOf(t, c.id).is_system_applied = 1
             ret    == IF c.exc THEN LedgerRet(FALSE, 0)
                       ELSE [c.ret EXCEPT !.done = commit]
         IN  ledger' =
               Finish([ledger EXCEPT
                          !.committed = t, !.conn = None,
                          !.trues = IF hit THEN Bump(@, c.id, 1) ELSE @,
                          !.flips = IF flip THEN Bump(@, c.id, 1) ELSE @],
                      ret)
    /\ OnlyLedger

\* ContextMenuDatabase.add_shortcut
\* The arguments the caller draws from.
LedgerArgs ==
    [name |-> {<<"A">>, <<"B">>}, target_type |-> {<<"all_files">>, <<".txt">>},
     command |-> <<"notepad.exe", SP, "%1">>, id |-> {1, 2},
     limit |-> {2, 100}]

AddStart ==
    \E name \in LedgerArgs.name, target_type \in LedgerArgs.target_type :
        Begin([NoLedgerCall EXCEPT !.op = "add", !.name = name,
                                   !.command = LedgerArgs.command,
                                   !.target_type = target_type])

AddInsert ==
    \E fault \in BOOLEAN :
        LET c == ledger.cur
            t == InsertShortcut(ledger.conn[1], c.name, c.command,
                                c.target_type, c.icon_path, ledger.now)
        IN  Statement("add_row", fault, t, "add_audit",
                      [c EXCEPT !.id = t.seq,        \* cursor.lastrowid
                                !.created_at = ledger.now])

AddAudit ==
    \E fault \in BOOLEAN :
        LET c == ledger.cur
        IN  Statement("add_audit", fault,
                      InsertAudit(ledger.conn[1], "ADD", c.name, ledger.now),
                      "exit",
                      [c EXCEPT !.ret = LedgerRet(TRUE, c.id),
                                !.timestamp = ledger.now])

\* ContextMenuDatabase.delete_shortcut
DeleteStart ==
    \E id \in LedgerArgs.id :
        Begin([NoLedgerCall EXCEPT !.op = "delete", !.id = id])

DeleteSelect ==
    /\ ledger.pc = "del_select"
    /\ \E fault \in BOOLEAN :
        LET c == ledger.cur
            t == ledger.conn[1]
        IN  IF HasRow(t, c.id)
            THEN Statement("del_select", fault, t, "del_delete",
                           [c EXCEPT !.row = Some(RowOf(t, c.id).name)])
            ELSE Statement("del_select", fault, t, "exit",
                           [c EXCEPT !.ret = LedgerRet(FALSE, c.id)])

DeleteDelete ==
    \E fault \in BOOLEAN :
        Statement("del_delete", fault, DeleteRow(ledger.conn[1], ledger.cur.id),
                  "del_audit", ledger.cur)

DeleteAudit ==
    \E fault \in BOOLEAN :
        LET c == ledger.cur
        IN  Statement("del_audit", fault,
                      InsertAudit(ledger.conn[1], "DELETE", c.row[1], ledger.now),
                      "exit",
                      [c EXCEPT !.ret = LedgerRet(TRUE, c.id),
                                !.timestamp = ledger.now])

\* ContextMenuDatabase.update_system_applied
UpdateStart ==
    \E id \in LedgerArgs.id, applied \in BOOLEAN :
        Begin([NoLedgerCall EXCEPT !.op = "update", !.id = id,
                                   !.applied = applied])

UpdateExec ==
    \E fault \in BOOLEAN :
        LET c == ledger.cur
        IN  Statement("upd_exec", fault,
                      UpdateApplied(ledger.conn[1], c.id, c.applied), "exit",
                      [c EXCEPT !.ret = LedgerRet(TRUE, c.id)])

\* ContextMenuDatabase.toggle_active
ToggleStart ==
    \E id \in LedgerArgs.id :
        Begin([NoLedgerCall EXCEPT !.op = "toggle", !.id = id])

ToggleExec ==
    \E fault \in BOOLEAN :
        LET c == ledger.cur
        IN  Statement("tog_exec", fault, ToggleRow(ledger.conn[1], c.id), "exit",
                      [c EXCEPT !.ret = LedgerRet(TRUE, c.id)])

\* SELECT ... ORDER BY key DESC: the rows in an order of descending column key.
\* SQL leaves the order of rows with equal keys to the implementation.
OrderByDesc(rows, key) ==
    LET n == Len(rows)
    IN  { [i \in 1..n |-> rows[p[i]]] :
            p \in { q \in [1..n -> 1..n] :
                      /\ \A i, j \in 1..n : q[i] = q[j] => i = j
                      /\ \A i \in 1..(n - 1) :
                            rows[q[i]][key] >= rows[q[i + 1]][key] } }

\* LIMIT ?
Limit(rows, limit) ==
    SubSeq(rows, 1, IF Len(rows) < limit THEN Len(rows) ELSE limit)

\* ContextMenuDatabase.get_all_shortcuts
GetAllStart == Begin([NoLedgerCall EXCEPT !.op = "list"])

GetAllExec ==
    /\ ledger.pc = "list_exec"
    /\ \E fault \in BOOLEAN,
          rows \in OrderByDesc(ledger.conn[1].shortcuts, "created_at") :
         Statement("list_exec", fault, ledger.conn[1], "exit",
                   [ledger.cur EXCEPT
                       !.ret = [LedgerRet(TRUE, 0) EXCEPT !.rows = rows]])

\* ContextMenuDatabase.get_audit_log
GetAuditStart ==
    \E limit \in LedgerArgs.limit :
        Begin([NoLedgerCall EXCEPT !.op = "audit", !.limit = limit])

GetAuditExec ==
    /\ ledger.pc = "audit_exec"
    /\ \E fault \in BOOLEAN,
          rows \in OrderByDesc(ledger.conn[1].audit_log, "timestamp") :
         Statement("audit_exec", fault, ledger.conn[1], "exit",
                   [ledger.cur EXCEPT
                       !.ret = [LedgerRet(TRUE, 0) EXCEPT
                                   !.rows = Limit(rows, ledger.cur.limit)]])

\* A second passes on the clock of CURRENT_TIMESTAMP.
MaxClock == 1

Tick ==
    /\ ledger.now < MaxClock
    /\ ledger' = [ledger EXCEPT !.now = @ + 1]
    /\ OnlyLedger

\* ContextMenuDatabase.import_from_json.  The documents have a str in every
\* field the import reads (.s is the str of a JSON string).

itTwin == Item(JStr(<<"A">>), JStr(<<"NOTEPAD.EXE">>), JStr(<<"all_files">>), None)

ImportPool ==
    {Doc(<<itGood, itTwin>>), Doc(<<itGood, itIcon, itBadName>>),
     Doc(<<itIntName>>), JNull}

ImportRet(success, skipped, errors) ==
    [LedgerRet(TRUE, 0) EXCEPT !.success = success, !.skipped = skipped,
                               !.errors = errors]

\* Lines 336-354: load and sanitize the document and read the existing
\* pairs.  An exception (the file, an item that makes the sanitizer raise,
\* the connection, the SELECT) ends the call in the outer except clause, a
\* rejected document at line 343.
ImportStart ==
    /\ ledger.pc = "idle"
    /\ ledger.n < MaxLedgerCalls
    /\ \E data \in ImportPool, fault \in BOOLEAN :
         LET out == sanitize_json_import(data)
             c   == [NoLedgerCall EXCEPT !.op = "import",
                                         !.tables0 = ledger.committed,
                                         !.import0 = ledger.committed]
         IN  ledger' =
               IF fault \/ out.raised
               THEN Finish([ledger EXCEPT !.cur = [c EXCEPT !.exc = TRUE]],
                           ImportRet(0, 0, 1))
               ELSE IF ~out.ok
               THEN Finish([ledger EXCEPT !.cur = c], ImportRet(0, 0, 1))
               ELSE [ledger EXCEPT
                        !.pc = "imp_item",
                        !.cur = [c EXCEPT
                                   !.batch = Get(out.data, "shortcuts").l,
                                   !.at = 1,
                                   !.existing = PairsOf(ledger.committed)]]
    /\ OnlyLedger

\* Lines 356-368: one item of the loop is skipped or handed to add_shortcut.
ImportItem ==
    /\ ledger.pc = "imp_item"
    /\ ledger.cur.at <= Len(ledger.cur.batch)
    /\ LET c        == ledger.cur
           shortcut == c.batch[c.at]
           name        == Get(shortcut, "name").s
           target_type == Get(shortcut, "target_type").s
       IN  ledger' =
             IF <<name, target_type>> \in c.existing
             THEN [ledger EXCEPT !.cur.skip_count = @ + 1, !.cur.at = @ + 1]
             ELSE [ledger EXCEPT
                      !.pc = "enter",
                      !.cur = [c EXCEPT
                                 !.op = "add", !.importing = TRUE,
                                 !.name = name,
                                 !.command = Get(shortcut, "command").s,
                                 !.target_type = target_type,
                                 !.icon_path = Get(shortcut, "icon_path").s,
                                 !.id = 0, !.exc = FALSE,
                                 !.created_at = 0, !.timestamp = 0,
                                 !.ret = LedgerRet(FALSE, 0),
                                 !.tables0 = ledger.committed]]
    /\ OnlyLedger

\* Lines 370-375: the result of add_shortcut is counted.
ImportResult ==
    /\ ledger.pc = "imp_result"
    /\ LET c == ledger.cur
       IN  ledger' =
             [ledger EXCEPT
                !.pc = "imp_item",
                !.cur = IF c.ret.ok
                        THEN [c EXCEPT !.op = "import", !.importing = FALSE,
                                       !.success_count = @ + 1,
                                       !.existing = @ \cup {<<c.name, c.target_type>>},
                                       !.at = @ + 1]
                        ELSE [c EXCEPT !.op = "import", !.importing = FALSE,
                                       !.errors = @ + 1, !.at = @ + 1]]
    /\ OnlyLedger

\* Line 377: return success_count, skip_count, errors
ImportReturn ==
    /\ ledger.pc = "imp_item"
    /\ ledger.cur.at > Len(ledger.cur.batch)
    /\ LET c == ledger.cur
       IN  ledger' = Finish(ledger, ImportRet(c.success_count, c.skip_count,
                                              c.errors))
    /\ OnlyLedger

NextLedger ==
    \/ AddStart \/ AddInsert \/ AddAudit
    \/ DeleteStart \/ DeleteSelect \/ DeleteDelete \/ DeleteAudit
    \/ UpdateStart \/ UpdateExec
    \/ ToggleStart \/ ToggleExec
    \/ Enter \/ Exit
    \/ ImportStart \/ ImportItem \/ ImportResult \/ ImportReturn

SpecLedger == Init /\ [][NextLedger]_vars

\* Adds, deletes and the two listings, with time passing between them.
NextListing ==
    \/ AddStart \/ AddInsert \/ AddAudit
    \/ DeleteStart \/ DeleteSelect \/ DeleteDelete \/ DeleteAudit
    \/ Enter \/ Exit
    \/ GetAllStart \/ GetAllExec \/ GetAuditStart \/ GetAuditExec
    \/ Tick

SpecListing == Init /\ [][NextListing]_vars

---------------------------------------------------------------------------
(* managers/async_task.py: AsyncTaskManager.  run_async starts one worker  *)
(* thread per call; another thread polls with check_queue.                 *)

MaxTasks == 2

\* What func does when the worker calls it: it returns a value, it raises an
\* Exception, or it raises a BaseException that is no Exception (SystemExit,
\* as sys.exit() does).
FnPool == {"returns", "raises", "exits"}

\* Lines 38-42: the item the i-th worker puts on the queue, None when
\* neither put is reached.  The value and the message name the task.
WorkerItem_silent_error(fn, i) ==
    CASE fn = "returns" -> Some([status |-> "success", result |-> <<"value", i>>])
      [] fn = "raises"  -> None
      [] fn = "exits"   -> None
WorkerItem(fn, i) ==
    CASE fn = "returns" -> Some([status |-> "success", result |-> <<"value", i>>])
      [] fn = "raises"  -> Some([status |-> "error", result |-> <<"message", i>>])
      [] fn = "exits"   -> None

OnlyAsync ==
    UNCHANGED <<store, backups, pc, call, last, ncalls, probe, ledger>>

\* Lines 44-45: run_async creates and starts the worker thread.
RunAsync ==
    /\ Len(async.worker) < MaxTasks
    /\ \E fn \in FnPool :
         async' = [async EXCEPT !.worker = Append(@, [fn |-> fn, pc |-> "started"])]
    /\ OnlyAsync

\* Line 39: the worker calls func.
WorkerCall(i) ==
    /\ i \in 1..Len(async.worker)
    /\ async.worker[i].pc = "started"
    /\ async' = [async EXCEPT
                   !.worker[i].pc =
                       IF WorkerItem(async.worker[i].fn, i) = None
                       THEN "done" ELSE "put"]
    /\ OnlyAsync

\* Lines 40 and 42: queue.put, and the worker ends.
WorkerPut(i) ==
    /\ i \in 1..Len(async.worker)
    /\ async.worker[i].pc = "put"
    /\ LET item == WorkerItem(async.worker[i].fn, i)[1]
       IN  async' = [async EXCEPT !.worker[i].pc = "done",
                                  !.queue = Append(@, item),
                                  !.puts = Append(@, item)]
    /\ OnlyAsync

\* Line 47: the polling thread enters check_queue.
CheckQueue ==
    /\ async.poll = "idle"
    /\ async' = [async EXCEPT !.poll = "empty"]
    /\ OnlyAsync

\* Line 50: while not self.queue.empty()
QueueEmpty ==
    /\ async.poll = "empty"
    /\ async' = [async EXCEPT !.poll = IF async.queue = <<>> THEN "idle" ELSE "get"]
    /\ OnlyAsync

\* Line 51: get_nowait; queue.Empty ends check_queue (lines 54-55).
GetNowait ==
    /\ async.poll = "get"
    /\ async' = IF async.queue = <<>>
                THEN [async EXCEPT !.poll = "idle"]
                ELSE [async EXCEPT !.poll = "callback",
                                   !.item = Some(Head(async.queue)),
                                   !.queue = Tail(@)]
    /\ OnlyAsync

\* Lines 52-53: the callback, called by the polling thread.  An Exception it
\* raises ends check_queue (lines 56-57).
Callback ==
    /\ async.poll = "callback"
    /\ \E raises \in BOOLEAN :
         async' = [async EXCEPT
                     !.calls = Append(@, [item |-> async.item[1],
                                          thread |-> "poller"]),
                     !.item = None,
                     !.poll = IF raises THEN "idle" ELSE "empty"]
    /\ OnlyAsync

NextAsync ==
    \/ RunAsync
    \/ \E i \in 1..MaxTasks : WorkerCall(i)
    \/ \E i \in 1..MaxTasks : WorkerPut(i)
    \/ CheckQueue \/ QueueEmpty \/ GetNowait \/ Callback

\* Every started thread keeps running, and check_queue is called again and
\* again (gui/main.py 560-563 reschedules it every 100 ms).
SpecAsync ==
    /\ Init /\ [][NextAsync]_vars
    /\ \A i \in 1..MaxTasks : WF_vars(WorkerCall(i)) /\ WF_vars(WorkerPut(i))
    /\ WF_vars(CheckQueue) /\ WF_vars(QueueEmpty)
    /\ WF_vars(GetNowait) /\ WF_vars(Callback)

---------------------------------------------------------------------------
(* Properties.  A state with last.c.op # "none" is the state a call has     *)
(* just returned into: store and backups are what the call left behind,    *)
(* last.c.store0 and last.c.backups0 what it found.                        *)

Returned(op) == last.c.op = op

UnchangedByLast == store = last.c.store0 /\ backups = last.c.backups0

\* The key <base(scope)>\<name>\command, with the scope table of the
\* specification written out.
ScopeBase(scope) ==
    IF scope # <<>> /\ Head(scope) \in {".", ".txt", ".py"}
    THEN <<"Software", BSL, "Classes", BSL>> \o scope \o <<BSL, "shell">>
    ELSE IF scope = <<"folder">>
    THEN <<"Software", BSL, "Classes", BSL, "Directory", BSL, "shell">>
    ELSE IF scope = <<"background">>
    THEN <<"Software", BSL, "Classes", BSL, "Directory", BSL, "Background", BSL, "shell">>
    ELSE <<"Software", BSL, "Classes", BSL, "*", BSL, "shell">>

MenuKey(name, scope)    == KeyOf(ScopeBase(scope) \o <<BSL>> \o name)
CommandKey(name, scope) == KeyOf(ScopeBase(scope) \o <<BSL>> \o name \o <<BSL, "command">>)

\* The command stored for (name, scope) in registry st, if any.
HasCommand(st, name, scope) ==
    /\ CommandKey(name, scope) \in DOMAIN st
    /\ "" \in DOMAIN st[CommandKey(name, scope)]
StoredCommand(st, name, scope) == st[CommandKey(name, scope)][""]

\* C1: apply_shortcut changes the registry only after the name, the command
\* and (when given) the icon path have passed their validators; the first
\* validator to fail, in that order, ends the call with its reason and with
\* registry and ledger as they were.  So every command value in the registry
\* is one validate_command accepts.
Thm_C1 ==
    /\ \A t \in Threads :
         (call[t].op = "apply" /\ (call[t].wrote \/ pc[t] # "idle")) =>
            /\ validate_name(call[t].name).ok
            /\ validate_command(call[t].command).ok
            /\ call[t].icon_path # <<>> => validate_icon_path(call[t].icon_path).ok
    /\ Returned("apply") =>
         LET c  == last.c
             vn == validate_name(c.name)
             vc == validate_command(c.command)
             vi == validate_icon_path(c.icon_path)
         IN  /\ ~vn.ok =>
                  last.ret = Result(FALSE, "name_error", vn.reason) /\ UnchangedByLast
             /\ (vn.ok /\ ~vc.ok) =>
                  last.ret = Result(FALSE, "command_error", vc.reason) /\ UnchangedByLast
             /\ (vn.ok /\ vc.ok /\ c.icon_path # <<>> /\ ~vi.ok) =>
                  last.ret = Result(FALSE, "icon_error", vi.reason) /\ UnchangedByLast
             /\ (c.wrote \/ c.saved) =>
                  vn.ok /\ vc.ok /\ (c.icon_path # <<>> => vi.ok)
    /\ \A k \in DOMAIN store :
         (k[Len(k)] = <<"command">> /\ "" \in DOMAIN store[k]) =>
            validate_command(store[k][""]).ok

\* A rejected command, returned into a registry that holds an applied one.
Wit_C1 ==
    /\ Returned("apply")
    /\ last.ret.kind = "command_error"
    /\ \E k \in DOMAIN store : "" \in DOMAIN store[k]

\* C2: in an apply_shortcut call that was given the database, no registry
\* write happens, and the create-menu-key step is not reached, unless the
\* call has committed a row to registry_backups.
CE_C2 ==
    \A t \in Threads :
       (call[t].op = "apply" /\ call[t].db) =>
          /\ pc[t] \in {"create_menu", "set_icon", "create_cmd", "set_cmd"}
                => call[t].saved
          /\ call[t].wrote => call[t].saved

\* C3: when saving the backup fails, apply_shortcut reports failure and has
\* written nothing to the registry.
CE_C3 ==
    /\ \A t \in Threads : "save" \in call[t].faults => ~call[t].wrote
    /\ (Returned("apply") /\ "save" \in last.c.faults) =>
          ~last.ret.ok /\ store = last.c.store0

\* C4: apply_shortcut for a (name, scope) whose command an earlier apply has
\* written, and whose conflict lookup the backend answers, reports "already
\* exists" and leaves registry and ledger unchanged: the stored command and
\* icon stay those of the first apply, whatever the proposal carries.
Thm_C4 ==
    (/\ Returned("apply")
     /\ ApplyValidation(last.c.name, last.c.command, last.c.icon_path).ok
     /\ HasCommand(last.c.store0, last.c.name, last.c.target_type)
     /\ "lookup" \notin last.c.faults)
    => /\ last.ret = Result(FALSE, "exists", "already exists")
       /\ UnchangedByLast
       /\ StoredCommand(store, last.c.name, last.c.target_type)
            = StoredCommand(last.c.store0, last.c.name, last.c.target_type)

\* A second apply with another command and another icon, turned away.
Wit_C4 ==
    /\ Returned("apply")
    /\ last.ret.kind = "exists"
    /\ StoredCommand(store, last.c.name, last.c.target_type) # last.c.command
    /\ last.c.icon_path # <<>>
    /\ "Icon" \notin DOMAIN store[MenuKey(last.c.name, last.c.target_type)]

\* C5: in the state a successful apply_shortcut(p) returns into, the
\* conflict check for (p.name, p.scope) finds the key and returns p.command.
Thm_C5 ==
    (Returned("apply") /\ last.ret.ok) =>
       check_registry_conflict(store, last.c.name, last.c.target_type, FALSE)
          = [found |-> TRUE, command |-> Some(last.c.command)]

Wit_C5 ==
    /\ Returned("apply") /\ last.ret.ok
    /\ last.c.target_type = <<".txt">>

\* C6: remove_shortcut for a (name, scope) with no key returns success and
\* leaves the registry unchanged; a successful remove leaves no key behind,
\* so a remove that follows a successful remove of the same key succeeds
\* too and returns into the registry the first one left.
Thm_C6 ==
    Returned("remove") =>
       LET k == MenuKey(last.c.name, last.c.target_type)
       IN  /\ ~KeyExists(last.c.store0, k) =>
                last.ret = Result(TRUE, "removed", "OK") /\ UnchangedByLast
           /\ last.ret.ok => ~KeyExists(store, k)
           /\ last.c.after_remove = Some(last.c.menu_key_path) =>
                last.ret.ok /\ UnchangedByLast

\* The second of two removes in a row, after an apply went through.
Wit_C6 ==
    /\ Returned("remove")
    /\ last.c.after_remove = Some(last.c.menu_key_path)
    /\ last.ret.ok
    /\ ncalls = 3

\* C7 as stated: backup_registry_key returns a backup, never None, and for a
\* missing key and for a backend read error alike the backup has the path,
\* no values and a timestamp.
CE_C7 ==
    Returned("snapshot") =>
       /\ last.ret # None
       /\ (~KeyExists(last.c.store0, KeyOf(last.c.menu_key_path))
             \/ last.c.faults # {}) =>
            /\ last.ret[1].path = last.c.menu_key_path
            /\ DOMAIN last.ret[1].values = {}
            /\ last.ret[1].timestamp \in Nat

\* C7: backup_registry_key never raises.  For a missing key it returns a
\* backup with the path, no values and a timestamp.  When opening an
\* existing key fails it returns None.  When the enumeration of the values
\* fails it returns a backup with the values read up to there; without a
\* failure the backup holds every value of the key.
Thm_C7 ==
    Returned("snapshot") =>
       LET k == KeyOf(last.c.menu_key_path)
           wellformed(b) == /\ b.path = last.c.menu_key_path
                            /\ b.timestamp \in Nat
                            /\ DOMAIN b.values \subseteq DOMAIN last.c.store0[k]
                            /\ \A v \in DOMAIN b.values :
                                  b.values[v].value = last.c.store0[k][v]
       IN  /\ UnchangedByLast
           /\ ~KeyExists(last.c.store0, k) =>
                /\ last.ret # None
                /\ last.ret[1].path = last.c.menu_key_path
                /\ DOMAIN last.ret[1].values = {}
                /\ last.ret[1].timestamp \in Nat
           /\ (KeyExists(last.c.store0, k) /\ "open" \in last.c.faults) =>
                last.ret = None
           /\ (KeyExists(last.c.store0, k) /\ "enum" \in last.c.faults) =>
                last.ret # None /\ wellformed(last.ret[1])
           /\ (KeyExists(last.c.store0, k) /\ last.c.faults = {}) =>
                /\ last.ret # None /\ wellformed(last.ret[1])
                /\ DOMAIN last.ret[1].values = DOMAIN last.c.store0[k]

\* The snapshot of a key that holds an icon, failing at OpenKey.
Wit_C7 ==
    /\ Returned("snapshot")
    /\ "open" \in last.c.faults
    /\ last.ret = None
    /\ "Icon" \in DOMAIN store[KeyOf(last.c.menu_key_path)]

\* C8: check_registry_conflict never raises: it returns (True, the stored
\* command) exactly when <base(scope)>\<name>\command exists with a default
\* value and the backend answers the lookup, and (False, None) when the key
\* or the value is absent and when the lookup fails otherwise.
Thm_C8 ==
    Returned("check") =>
       /\ UnchangedByLast
       /\ IF /\ HasCommand(last.c.store0, last.c.name, last.c.target_type)
             /\ "lookup" \notin last.c.faults
          THEN last.ret = [found |-> TRUE,
                           command |-> Some(StoredCommand(last.c.store0, last.c.name,
                                                          last.c.target_type))]
          ELSE last.ret = [found |-> FALSE, command |-> None]

\* A lookup that fails on a key that holds a command.
Wit_C8 ==
    /\ Returned("check")
    /\ HasCommand(store, last.c.name, last.c.target_type)
    /\ "lookup" \in last.c.faults
    /\ last.ret = [found |-> FALSE, command |-> None]

\* C9: get_registry_base_path is total: 'all_files', 'folder' and
\* 'background' give their fixed base paths, a scope starting with '.' gives
\* Software\Classes\<scope>\shell, every other string gives the all-files
\* base path; apply_shortcut, remove_shortcut and check_registry_conflict
\* work on the key this resolution names, so with an unknown scope on the
\* key they work on with 'all_files'.
ScopeUniverse ==
    { <<"all_files">>, <<"folder">>, <<"background">>, <<".txt">>, <<".py">>,
      <<".">>, <<".txt", "x">>, <<"ALL_FILES">>, <<"Folder">>, <<"BACKGROUND">>,
      <<"unknown">>, <<>>, <<SP, "folder">>, <<"txt">> }

Thm_C9 ==
    /\ get_registry_base_path(<<"all_files">>)
          = <<"Software", BSL, "Classes", BSL, "*", BSL, "shell">>
    /\ get_registry_base_path(<<"folder">>)
          = <<"Software", BSL, "Classes", BSL, "Directory", BSL, "shell">>
    /\ get_registry_base_path(<<"background">>)
          = <<"Software", BSL, "Classes", BSL, "Directory", BSL, "Background",
              BSL, "shell">>
    /\ \A s \in ScopeUniverse :
          /\ get_registry_base_path(s) = ScopeBase(s)
          /\ (s = <<>> \/ Head(s) \notin {".", ".txt", ".py"}) =>
                (s \notin {<<"folder">>, <<"background">>} =>
                    get_registry_base_path(s) = get_registry_base_path(<<"all_files">>))
    /\ \A t \in Threads :
          (call[t].op \in {"apply", "remove"} /\ call[t].menu_key_path # <<>>) =>
             KeyOf(call[t].menu_key_path) = MenuKey(call[t].name, call[t].target_type)
    /\ (Returned("apply") /\ last.ret.ok) =>
          /\ HasCommand(store, last.c.name, last.c.target_type)
          /\ \A k \in DOMAIN store \ DOMAIN last.c.store0 :
                IsPrefix(k, CommandKey(last.c.name, last.c.target_type))
    /\ Returned("remove") =>
          /\ KeyOf(last.c.menu_key_path) = MenuKey(last.c.name, last.c.target_type)
          /\ \A k \in DOMAIN last.c.store0 \ DOMAIN store :
                IsPrefix(MenuKey(last.c.name, last.c.target_type), k)
    /\ Returned("check") =>
          KeyOf(last.c.menu_key_path) = CommandKey(last.c.name, last.c.target_type)

\* remove_shortcut with 'ALL_FILES' has deleted what was applied with
\* 'all_files'.
Wit_C9 ==
    /\ Returned("remove") /\ last.ret.ok
    /\ last.c.target_type = <<"ALL_FILES">>
    /\ HasCommand(last.c.store0, last.c.name, <<"all_files">>)
    /\ ~KeyExists(store, MenuKey(last.c.name, <<"all_files">>))

\* The first whitespace-delimited token, stripped of quotes, has a
\* lower-cased base name in the whitelist.
Whitelisted(command) ==
    Lower(Basename(StripQuotes(FirstToken(command)))) \in SAFE_EXECUTABLES

\* C10 as stated: validate_command accepts every command with a whitelisted
\* first token that no dangerous pattern matches.
CE_C10 ==
    (/\ probe.fn = "validate_command"
     /\ Whitelisted(probe.arg)
     /\ ~DangerousMatch(probe.arg))
    => probe.out = Some(Ok)

\* C10: validate_command accepts every command with a whitelisted first
\* token, whatever the remaining arguments, provided that no dangerous
\* pattern matches, the command is at most MAX_COMMAND_LENGTH characters
\* long, holds no NUL character and does not start with two backslashes.
Thm_C10 ==
    (/\ probe.fn = "validate_command"
     /\ Whitelisted(probe.arg)
     /\ ~DangerousMatch(probe.arg)
     /\ StrLen(probe.arg) <= MAX_COMMAND_LENGTH
     /\ \A i \in 1..Len(probe.arg) : probe.arg[i] # NUL
     /\ ~(Len(probe.arg) >= 2 /\ probe.arg[1] = BSL /\ probe.arg[2] = BSL))
    => probe.out = Some(Ok)

\* An accepted command whose argument is an executable outside the
\* whitelist.
Wit_C10 ==
    /\ probe.fn = "validate_command"
    /\ probe.out = Some(Ok)
    /\ Whitelisted(probe.arg)
    /\ Len(probe.arg) = 4
    /\ probe.arg[4] = "malware.exe"

\* C11: validate_command applies its checks in the order empty or blank,
\* longer than MAX_COMMAND_LENGTH, NUL character, dangerous pattern, leading
\* two backslashes, whitelist, and returns the reason of the first that
\* fails.  At the whitelist step a first token outside the whitelist is
\* accepted only if it is an absolute path of an existing file; a command
\* that passes every check is accepted.
CE_C11 ==
    probe.fn = "validate_command" =>
       LET c   == probe.arg
           out == probe.out[1]
           tok == StripQuotes(FirstToken(c))
       IN  IF c = <<>> \/ \A i \in 1..Len(c) : IsSpace(c[i])
             THEN out = Rejected("empty")
           ELSE IF StrLen(c) > 2000 THEN out = Rejected("too_long")
           ELSE IF \E i \in 1..Len(c) : c[i] = NUL THEN out = Rejected("null_char")
           ELSE IF DangerousMatch(c) THEN out = Rejected("dangerous")
           ELSE IF Len(c) >= 2 /\ c[1] = BSL /\ c[2] = BSL
             THEN out = Rejected("network_path")
           ELSE IF Whitelisted(c) THEN out = Ok
           ELSE IF IsAbs(tok) /\ PathExists(tok) THEN out = Ok
           ELSE IF IsAbs(tok) THEN out = Rejected("exe_not_found")
           ELSE out = Rejected("not_whitelisted")

\* C12: validate_name rejects every name that is empty or blank, longer
\* than 100 characters, holds one of the characters < > : " / \ | ? *, or is
\* a reserved device name in any letter case, and accepts every other name.
ReservedLower ==
    { <<"con">>, <<"prn">>, <<"aux">>, <<"nul">>,
      <<"com1">>, <<"com2">>, <<"com3">>, <<"com4">>, <<"com5">>, <<"com6">>,
      <<"com7">>, <<"com8">>, <<"com9">>,
      <<"lpt1">>, <<"lpt2">>, <<"lpt3">>, <<"lpt4">>, <<"lpt5">>, <<"lpt6">>,
      <<"lpt7">>, <<"lpt8">>, <<"lpt9">> }

Thm_C12 ==
    probe.fn = "validate_name" =>
       LET n   == probe.arg
           bad == \/ n = <<>>
                  \/ \A i \in 1..Len(n) : n[i] = SP
                  \/ StrLen(n) > 100
                  \/ \E i \in 1..Len(n) :
                        n[i] \in {"<", ">", ":", QUOTE, "/", BSL, "|", "?", "*"}
                  \/ Lower(n) \in ReservedLower
       IN  probe.out[1].ok <=> ~bad

\* A reserved name in mixed case, rejected as reserved.
Wit_C12 ==
    /\ probe.fn = "validate_name"
    /\ probe.arg = <<"Con">>
    /\ probe.out = Some(Rejected("reserved"))

\* The document is a mapping with a list 'shortcuts' of at most 1000 items.
WellFormedDoc(data) ==
    /\ data.t = "dict"
    /\ \E p \in data.d : p[1] = "shortcuts" /\ p[2].t = "list" /\ Len(p[2].l) <= 1000

ItemsOf(data) == (CHOOSE p \in data.d : p[1] = "shortcuts")[2].l

\* The shortcuts of the sanitized data; none when the data is empty.
CleanOf(out) ==
    IF \E p \in out.data.d : p[1] = "shortcuts"
    THEN (CHOOSE p \in out.data.d : p[1] = "shortcuts")[2].l
    ELSE <<>>

Field(item, key) == (CHOOSE p \in item.d : p[1] = key)[2]

\* C13: sanitize_json_import rejects the whole batch, with ok false and no
\* shortcuts in the sanitized data, when the input is not a mapping, has no
\* 'shortcuts' entry, 'shortcuts' is not a list, or the list has more than
\* 1000 items; no item is validated then.  A list of 1000 items is not
\* rejected for its length.
Thm_C13 ==
    probe.fn = "sanitize_json_import" =>
       LET data == probe.arg
           out  == probe.out[1]
       IN  /\ ~WellFormedDoc(data) =>
                /\ ~out.raised /\ ~out.ok
                /\ out.data.d = {} /\ CleanOf(out) = <<>>
                /\ out.message.shown = <<>> /\ out.message.errors = 0
           /\ WellFormedDoc(data) => out.message.kind # "too_many"
           /\ (WellFormedDoc(data) /\ ~out.raised) => out.ok

\* 1001 items that would each raise, rejected for their number.
Wit_C13 ==
    /\ probe.fn = "sanitize_json_import"
    /\ probe.arg.t = "dict"
    /\ \E p \in probe.arg.d : p[1] = "shortcuts" /\ p[2].t = "list"
                              /\ Len(p[2].l) = 1001 /\ p[2].l[1] = itIntName
    /\ probe.out[1].message.kind = "too_many"

\* The item is a record whose name and command are texts the validators
\* accept.
Passes(item) ==
    /\ item.t = "dict"
    /\ \E p \in item.d : p[1] = "name" /\ p[2].t = "str" /\ validate_name(p[2].s).ok
    /\ \E p \in item.d : p[1] = "command" /\ p[2].t = "str"
                         /\ validate_command(p[2].s).ok

\* C14: for every mapping with a list 'shortcuts' of at most 1000 items
\* sanitize_json_import returns ok, and the sanitized shortcuts are, in
\* input order, the items whose name and command pass the validators; an
\* item that is not a record or has a field of the wrong type is dropped
\* with an error message, and the batch does not fail.
CE_C14 ==
    (probe.fn = "sanitize_json_import" /\ WellFormedDoc(probe.arg)) =>
       LET out  == probe.out[1]
           ins  == SelectSeq(ItemsOf(probe.arg), Passes)
           outs == CleanOf(out)
       IN  /\ ~out.raised /\ out.ok
           /\ Len(outs) = Len(ins)
           /\ \A k \in 1..Len(ins) :
                 /\ Field(outs[k], "name") = Field(ins[k], "name")
                 /\ Field(outs[k], "command") = Field(ins[k], "command")
           /\ Len(ItemsOf(probe.arg)) > Len(ins) => out.message.errors > 0

\* The item carries a text as icon path that validate_icon_path rejects.
BadIcon(item) ==
    \E p \in item.d : p[1] = "icon_path" /\ p[2].t = "str" /\ p[2].s # <<>>
                      /\ ~validate_icon_path(p[2].s).ok

\* C15: an item whose name and command are valid and whose icon path fails
\* validate_icon_path is kept in the sanitized data with name, command and
\* target_type unchanged and icon_path set to the empty string; a bad icon
\* never drops the item.
Thm_C15 ==
    (/\ probe.fn = "sanitize_json_import"
     /\ WellFormedDoc(probe.arg)
     /\ ~probe.out[1].raised) =>
       LET ins  == SelectSeq(ItemsOf(probe.arg), Passes)
           outs == CleanOf(probe.out[1])
       IN  /\ Len(outs) = Len(ins)
           /\ \A k \in 1..Len(ins) :
                 BadIcon(ins[k]) =>
                    /\ Field(outs[k], "name") = Field(ins[k], "name")
                    /\ Field(outs[k], "command") = Field(ins[k], "command")
                    /\ Field(outs[k], "target_type") = Field(ins[k], "target_type")
                    /\ Field(outs[k], "icon_path") = JStr(<<>>)

\* A batch of a good item and one with a bad icon: both are kept.
Wit_C15 ==
    /\ probe.fn = "sanitize_json_import"
    /\ probe.arg = Doc(<<itGood, itBadIcon>>)
    /\ Len(CleanOf(probe.out[1])) = 2
    /\ Field(CleanOf(probe.out[1])[2], "icon_path") = JStr(<<>>)
    /\ Field(CleanOf(probe.out[1])[2], "name") = JStr(<<"C">>)

\* The positions of the items that are not in the sanitized data, and of
\* the kept items whose icon was cleared.
DroppedAt(data) == { i \in 1..Len(ItemsOf(data)) : ~Passes(ItemsOf(data)[i]) }
ClearedAt(data) ==
    { i \in 1..Len(ItemsOf(data)) :
         Passes(ItemsOf(data)[i]) /\ BadIcon(ItemsOf(data)[i]) }

\* shown holds the first five positions of E, or all of them, in order.
FirstFiveOf(shown, E) ==
    /\ Len(shown) = (IF Cardinality(E) < 5 THEN Cardinality(E) ELSE 5)
    /\ \A k \in 1..Len(shown) :
          /\ shown[k].item \in E
          /\ Cardinality({ e \in E : e < shown[k].item }) = k - 1

\* C16 as stated: the summary shows at most the first 5 error messages in
\* item order, and the error count it reports is the number of items
\* dropped.
CE_C16 ==
    (/\ probe.fn = "sanitize_json_import"
     /\ WellFormedDoc(probe.arg)
     /\ ~probe.out[1].raised
     /\ probe.out[1].message.kind = "summary") =>
       /\ Len(probe.out[1].message.shown) <= 5
       /\ probe.out[1].message.errors = Cardinality(DroppedAt(probe.arg))

\* C16: the summary shows the first 5 error messages, or all when there are
\* fewer, in item order; the error count it reports is the number of error
\* messages: one for every dropped item and one for every kept item whose
\* icon path was cleared.  Without any error message there is no summary.
Thm_C16 ==
    (/\ probe.fn = "sanitize_json_import"
     /\ WellFormedDoc(probe.arg)
     /\ ~probe.out[1].raised) =>
       LET E   == DroppedAt(probe.arg) \cup ClearedAt(probe.arg)
           msg == probe.out[1].message
       IN  /\ (msg.kind = "summary") <=> (E # {})
           /\ msg.errors = Cardinality(E)
           /\ FirstFiveOf(msg.shown, E)
           /\ msg.success = Len(ItemsOf(probe.arg)) - Cardinality(DroppedAt(probe.arg))

\* Six error messages, one of them for a cleared icon: five are shown.
Wit_C16 ==
    /\ probe.fn = "sanitize_json_import"
    /\ WellFormedDoc(probe.arg)
    /\ probe.out[1].message.errors = 6
    /\ Len(probe.out[1].message.shown) = 5
    /\ Cardinality(DroppedAt(probe.arg)) = 5
    /\ probe.out[1].message.success = 1

\* The database: what a call that returned found and left behind.
LedgerReturned(op) == ledger.last.c.op = op
Rows == ledger.committed.shortcuts

\* C17 as the specification states it: apply_count of every record equals
\* the number of times its is_system_applied went from 0 to 1.
CE_C17 ==
    \A k \in 1..Len(Rows) : Rows[k].apply_count = Count(ledger.flips, Rows[k].id)

\* C17: apply_count of a record is never decremented; it increases by exactly
\* 1 with every committed update_system_applied(id, True) on the record,
\* whether or not is_system_applied was already 1, so it equals the number
\* of those calls and is at least the number of times is_system_applied went
\* from 0 to 1.
Thm_C17 ==
    /\ [](\A k \in 1..Len(Rows) :
            /\ Rows[k].apply_count = Count(ledger.trues, Rows[k].id)
            /\ Rows[k].apply_count >= Count(ledger.flips, Rows[k].id))
    /\ [][\A k \in 1..Len(Rows) :
            HasRow(ledger.committed', Rows[k].id) =>
                RowOf(ledger.committed', Rows[k].id).apply_count
                    >= Rows[k].apply_count]_vars

Wit_C17 ==
    \E k \in 1..Len(Rows) :
        /\ Rows[k].apply_count = 2
        /\ Count(ledger.flips, Rows[k].id) = 1

\* C18: an update_system_applied(id, applied) the backend carries out on an
\* existing record sets is_system_applied to 1 and adds exactly 1 to
\* apply_count when applied is True (so the n-th consecutive call on a new
\* record leaves apply_count at n), sets is_system_applied to 0 and leaves
\* apply_count alone when applied is False, and changes nothing else.
Thm_C18 ==
    (/\ LedgerReturned("update") /\ ledger.last.ret.done
     /\ HasRow(ledger.last.c.tables0, ledger.last.c.id))
    => LET c   == ledger.last.c
           old == RowOf(c.tables0, c.id)
       IN  /\ ledger.committed.audit_log = c.tables0.audit_log
           /\ Len(Rows) = Len(c.tables0.shortcuts)
           /\ \A k \in 1..Len(Rows) :
                Rows[k] =
                  IF Rows[k].id # c.id THEN c.tables0.shortcuts[k]
                  ELSE IF c.applied
                  THEN [old EXCEPT !.is_system_applied = 1,
                                   !.apply_count = old.apply_count + 1]
                  ELSE [old EXCEPT !.is_system_applied = 0]

Wit_C18 ==
    /\ LedgerReturned("update") /\ ledger.last.ret.done /\ ledger.last.c.applied
    /\ HasRow(ledger.last.c.tables0, ledger.last.c.id)
    /\ RowOf(ledger.last.c.tables0, ledger.last.c.id).apply_count = 1
    /\ RowOf(ledger.committed, ledger.last.c.id).apply_count = 2

\* C19: add_shortcut and delete_shortcut are all-or-nothing.  While a call is
\* inside its with block a read of the database sees what the call found.
\* When add_shortcut has returned, the database holds both the new row and
\* its ADD audit row, or is what the call found; when delete_shortcut has
\* returned, the row is gone and its DELETE audit row is there, or the
\* database is what the call found.  After a failed statement it is what the
\* call found, and the connection is closed whenever a call has returned.
Thm_C19 ==
    LET c  == ledger.last.c
        t0 == c.tables0
        t  == ledger.committed
    IN  /\ ledger.pc \notin {"idle", "imp_item", "imp_result"}
             => t = ledger.cur.tables0
        /\ ledger.pc \in {"idle", "imp_item", "imp_result"} => ledger.conn = None
        /\ LedgerReturned("add") =>
             /\ \/ t = t0
                \/ t = InsertAudit(InsertShortcut(t0, c.name, c.command,
                                                  c.target_type, c.icon_path,
                                                  c.created_at),
                                   "ADD", c.name, c.timestamp)
             /\ c.exc => t = t0
        /\ LedgerReturned("delete") =>
             /\ \/ t = t0
                \/ /\ HasRow(t0, c.id)
                   /\ t = InsertAudit(DeleteRow(t0, c.id), "DELETE",
                                      RowOf(t0, c.id).name, c.timestamp)
             /\ c.exc => t = t0

\* add_shortcut inserted the row, the audit INSERT failed, and the row is
\* not in the database.
Wit_C19 ==
    /\ LedgerReturned("add") /\ ledger.last.c.exc /\ ledger.last.c.id # 0
    /\ ledger.committed = ledger.last.c.tables0
    /\ ledger.conn = None

\* C20: no two rows of shortcuts share the pair (name, target_type), whatever
\* add_shortcut and import_from_json calls were made; and an import that
\* reports no error has skipped, and counted as skipped, exactly the items
\* whose pair was in the database when it began or belongs to an earlier
\* item of the same batch.
CE_C20 ==
    /\ \A j, k \in 1..Len(Rows) :
         (Rows[j].name = Rows[k].name /\ Rows[j].target_type = Rows[k].target_type)
            => j = k
    /\ (LedgerReturned("import") /\ ledger.last.ret.errors = 0) =>
         LET c       == ledger.last.c
             pair(i) == <<Get(c.batch[i], "name").s,
                          Get(c.batch[i], "target_type").s>>
         IN  ledger.last.ret.skipped =
               Cardinality({i \in 1..Len(c.batch) :
                               \/ pair(i) \in PairsOf(c.import0)
                               \/ \E h \in 1..(i - 1) : pair(h) = pair(i)})

\* C21: get_all_shortcuts returns all records, the most recently added
\* first, and get_audit_log(limit) the min(limit, total) most recently
\* appended audit rows, the most recent first, also when rows were inserted
\* within the same second.
CE_C21 ==
    LET c == ledger.last.c
        t == ledger.committed
        Reverse(rows) == [i \in 1..Len(rows) |-> rows[Len(rows) + 1 - i]]
    IN  /\ (LedgerReturned("list") /\ ledger.last.ret.ok)
              => ledger.last.ret.rows = Reverse(t.shortcuts)
        /\ (LedgerReturned("audit") /\ ledger.last.ret.ok)
              => ledger.last.ret.rows = Limit(Reverse(t.audit_log), c.limit)

\* C22: every committed change of a record has appended an audit row: adding
\* and deleting a record, update_system_applied and toggle_active.
CE_C22 ==
    (/\ ledger.last.c.op \in {"add", "delete", "update", "toggle"}
     /\ ledger.last.ret.done
     /\ ledger.committed.shortcuts # ledger.last.c.tables0.shortcuts)
    => Len(ledger.committed.audit_log) > Len(ledger.last.c.tables0.audit_log)

\* C23: the committed audit_log only grows at its end: in every step the old
\* sequence of audit rows is a prefix of the new one, whatever call of the
\* database (delete_shortcut and import_from_json included) takes the step.
Thm_C23 ==
    [][LET old == ledger.committed.audit_log
           new == ledger.committed.audit_log'
       IN  /\ Len(new) >= Len(old)
           /\ SubSeq(new, 1, Len(old)) = old]_vars

\* delete_shortcut has committed the DELETE row behind the ADD row.
Wit_C23 ==
    /\ LedgerReturned("delete") /\ ledger.last.ret.done /\ ledger.last.ret.ok
    /\ Len(ledger.committed.audit_log) >= 2
    /\ ledger.committed.audit_log[1].action = "ADD"
    /\ ledger.committed.audit_log[Len(ledger.committed.audit_log)].action = "DELETE"

\* The queue.put's and the callback calls made for the i-th run_async.
PutsOf(i) == SelectSeq(async.puts, LAMBDA item : item.result[2] = i)
CallsOf(i) == SelectSeq(async.calls, LAMBDA c : c.item.result[2] = i)

\* What holds of the i-th run_async in every state: at most one item is put,
\* the one its func calls for; no callback comes before the put, none twice,
\* and every callback is made by the polling thread with the item put.
TaskSafe(i) ==
    LET w == async.worker[i]
    IN  /\ Len(PutsOf(i)) <= 1
        /\ Len(CallsOf(i)) <= Len(PutsOf(i))
        /\ \A k \in 1..Len(PutsOf(i)) :
              /\ w.fn = "returns" =>
                    PutsOf(i)[k] = [status |-> "success", result |-> <<"value", i>>]
              /\ w.fn # "returns" =>
                    PutsOf(i)[k] = [status |-> "error", result |-> <<"message", i>>]
        /\ \A k \in 1..Len(CallsOf(i)) :
              /\ CallsOf(i)[k].thread = "poller"
              /\ CallsOf(i)[k].item = PutsOf(i)[1]

\* C24 as the specification states it: whenever func has terminated, by
\* returning or by raising anything, its worker has put exactly one item,
\* and the callback is eventually called exactly once for it.
CE_C24 ==
    /\ [](\A i \in 1..Len(async.worker) :
            /\ TaskSafe(i)
            /\ async.worker[i].pc = "done" => Len(PutsOf(i)) = 1)
    /\ \A i \in 1..MaxTasks :
          (i <= Len(async.worker)) ~> (Len(CallsOf(i)) = 1)

\* C24: for every run_async whose func returns or raises an Exception, the
\* worker puts exactly one item, ('success', value) or ('error', message),
\* and under repeated polling the callback is eventually called exactly once
\* for it, by the polling thread only.  A func that ends with a
\* BaseException that is no Exception puts no item and gets no callback.
Thm_C24 ==
    /\ [](\A i \in 1..Len(async.worker) :
            /\ TaskSafe(i)
            /\ (async.worker[i].pc = "done" /\ async.worker[i].fn # "exits")
                  => Len(PutsOf(i)) = 1
            /\ async.worker[i].fn = "exits" => Len(PutsOf(i)) = 0)
    /\ \A i \in 1..MaxTasks :
          (i <= Len(async.worker) /\ async.worker[i].fn # "exits")
             ~> (Len(CallsOf(i)) = 1)

\* Both tasks were delivered, the second one first, one as a success and one
\* as an error.
Wit_C24 ==
    /\ Len(async.calls) = 2
    /\ async.calls[1].item.result[2] = 2
    /\ async.calls[1].item.status # async.calls[2].item.status

---------------------------------------------------------------------------
(* Properties of remove_shortcut on a populated registry (SpecRemove).     *)

\* The keys of the store at or below key k.
Subtree(st, k) == { x \in DOMAIN st : IsPrefix(k, x) }

\* The children of key k among the keys in set S.
ChildrenIn(S, k) == { x \in S : Len(x) = Len(k) + 1 /\ IsPrefix(k, x) }

\* The key the remove_shortcut that returned last was aimed at.
RemoveTarget == KeyOf(last.c.menu_key_path)

\* A step of the caller in which keys leave the store: none of them has a
\* child in the store, and every child EnumKey yielded for it has had its
\* own invocation and is gone.
DeleteOrder ==
    call'[Caller] # call[Caller] =>
        \A k \in (DOMAIN store) \ (DOMAIN store') :
            /\ ChildrenIn(DOMAIN store, k) = {}
            /\ ChildrenIn(call[Caller].enumerated, k) \subseteq call[Caller].visited

\* C25: remove_shortcut deletes depth-first, children before their parent:
\* within one call no key is deleted while a child it enumerated for that
\* key is still there, and after a call that reports success no key of the
\* subtree <base(scope)>\<name> remains.
Thm_C25 ==
    /\ [][DeleteOrder]_vars
    /\ [](Returned("remove") /\ last.ret.ok => Subtree(store, RemoveTarget) = {})

\* A removal of shortcut A that deleted its four keys and reported success.
Wit_C25 ==
    /\ Returned("remove") /\ last.ret.ok
    /\ last.c.name = nameA
    /\ Cardinality(last.c.deleted) = 4

\* Every key EnumKey yielded has had its own invocation.
SiblingsAttempted == last.c.enumerated \subseteq last.c.visited

\* No key the call failed to delete is in the store after a reported success.
NoFailedKeyLeft == last.ret.ok => last.c.failed \cap DOMAIN store = {}

\* C26 as stated: when the deletion of any node fails for another reason
\* than the key being absent, remove_shortcut reports failure, it still
\* attempts every sibling subtree, and it never reports success while a key
\* it failed to delete is in the store.
CE_C26 ==
    Returned("remove") =>
        /\ last.c.failed # {} => ~last.ret.ok
        /\ SiblingsAttempted
        /\ NoFailedKeyLeft

\* C26: when the deletion of the target key itself fails for another reason
\* than the key being absent, remove_shortcut reports failure; the result of
\* a failed descendant is dropped, so a success is reported after such a
\* failure exactly when the failed keys are no longer in the store; every
\* sibling subtree is still attempted, and success is never reported while
\* a key the call failed to delete is in the store.
Thm_C26 ==
    Returned("remove") =>
        /\ RemoveTarget \in last.c.failed => ~last.ret.ok
        /\ last.c.failed \cap DOMAIN store # {} => ~last.ret.ok
        /\ SiblingsAttempted
        /\ NoFailedKeyLeft

\* A removal of A that failed on one key, went on to delete another one and
\* reported failure, the failed key still being there.
Wit_C26 ==
    /\ Returned("remove") /\ ~last.ret.ok
    /\ last.c.name = nameA
    /\ last.c.failed \cap DOMAIN store # {}
    /\ last.c.deleted # {}
    /\ Cardinality(last.c.visited) = 4

\* C27: a key that another actor deletes during the recursion, after it was
\* enumerated and before remove_shortcut opens or deletes it, counts as
\* deleted: its invocation does not fail, and when no backend operation of
\* the call failed, the call reports success and the whole subtree is gone.
Thm_C27 ==
    Returned("remove") /\ last.c.vanished # {} =>
        /\ last.c.vanished \cap last.c.failed = {}
        /\ last.c.faults = {} =>
              last.ret.ok /\ Subtree(store, RemoveTarget) = {}

\* A removal of A that found an enumerated key gone, had no failing backend
\* operation, deleted other keys itself and reported success.
Wit_C27 ==
    /\ Returned("remove") /\ last.ret.ok
    /\ last.c.name = nameA
    /\ last.c.vanished \cap last.c.enumerated # {}
    /\ last.c.faults = {}
    /\ last.c.deleted # {}

\* The base key of the scope the removals of SpecRemove are aimed at.
RemoveBase == KeyOf(ALL_FILES_BASE)

\* Key k lies below the base key in the subtree of a shortcut other than the
\* one the name string begins with.
OfOtherShortcut(k, name) ==
    /\ IsPrefix(RemoveBase, k) /\ Len(k) > Len(RemoveBase)
    /\ ~IsPrefix(<<k[Len(RemoveBase) + 1]>>, KeyOf(name))

\* C30 as stated: for every name string, the empty one and those with a
\* backslash included, remove_shortcut(name, scope) deletes only keys inside
\* the subtree <base(scope)>\<name>: never a key of a different shortcut and
\* never the base key of the scope.
CE_C30 ==
    Returned("remove") =>
        \A k \in last.c.deleted :
            /\ IsPrefix(RemoveTarget, k)
            /\ k # RemoveBase
            /\ ~OfOtherShortcut(k, last.c.name)

---------------------------------------------------------------------------
(* Properties of apply_shortcut after a partial failure (Spec) and of two  *)
(* apply_shortcut calls that interleave (SpecRace).                        *)

\* The menu key of (name, scope) is there without a command value: what an
\* apply_shortcut leaves behind that failed after creating the menu key.
Orphaned(st, name, scope) ==
    /\ KeyExists(st, MenuKey(name, scope))
    /\ ~HasCommand(st, name, scope)

\* The apply_shortcut that returned last passed validation and found the
\* orphaned menu key of its own (name, scope).
RetriedApply ==
    /\ Returned("apply")
    /\ ApplyValidation(last.c.name, last.c.command, last.c.icon_path).ok
    /\ Orphaned(last.c.store0, last.c.name, last.c.target_type)

\* An apply_shortcut that directly follows a successful remove_shortcut of
\* its own (name, scope) and meets no backend failure succeeds.
ApplyAfterRemove ==
    (/\ Returned("apply")
     /\ ApplyValidation(last.c.name, last.c.command, last.c.icon_path).ok
     /\ last.c.after_remove = Some(last.c.menu_key_path)
     /\ last.c.faults = {})
    => last.ret.ok

\* C28 as stated: an apply_shortcut retried after a partial failure (menu
\* key there, command key or value not written) reports "already exists"
\* and changes nothing; after a remove_shortcut the retry succeeds.
CE_C28 ==
    /\ RetriedApply =>
          last.ret = Result(FALSE, "exists", "already exists") /\ UnchangedByLast
    /\ ApplyAfterRemove

\* C28: an apply_shortcut retried after a partial failure is not stopped by
\* the conflict check, which looks at the command value only: it never
\* reports "already exists", and when no backend operation fails it succeeds
\* and the command value is the one of the retry; a retry after a
\* remove_shortcut succeeds as well.
Thm_C28 ==
    /\ RetriedApply =>
          /\ last.ret.kind # "exists"
          /\ last.c.faults = {} =>
                /\ last.ret.ok
                /\ HasCommand(store, last.c.name, last.c.target_type)
                /\ StoredCommand(store, last.c.name, last.c.target_type)
                     = last.c.command
    /\ ApplyAfterRemove

\* The second call is an apply_shortcut that found the menu key the first,
\* failed apply_shortcut had left behind, and succeeded.
Wit_C28 ==
    /\ RetriedApply
    /\ ncalls = 2
    /\ last.ret.ok

\* What a proposal stores under the menu key: its icon (None when it has
\* none) and its command.
ContentsOf(p) == [icon |-> IF p[4] = <<>> THEN None ELSE Some(p[4]), command |-> p[2]]

\* What the store holds for shortcut A of the all-files scope.
StoredContents ==
    LET m == MenuKey(nameA, <<"all_files">>)
    IN  [icon    |-> IF "Icon" \in DOMAIN store[m] THEN Some(store[m]["Icon"]) ELSE None,
         command |-> StoredCommand(store, nameA, <<"all_files">>)]

\* C29 as stated: once two interleaved apply_shortcut calls for the same
\* (name, scope) have finished, the icon and the command stored for the
\* shortcut are those of one of the two proposals, never the icon of one
\* with the command of the other.
CE_C29 ==
    (/\ \A t \in Threads : Idle(t)
     /\ HasCommand(store, nameA, <<"all_files">>))
    => StoredContents \in { ContentsOf(RaceProposal(t)) : t \in Threads }


=============================================================================
